---------------------------- MODULE Spec2Model ----------------------------
(***************************************************************************)
(* Web clipper core of supertag-raycast: the filter pipeline (filters.ts), *)
(* the template renderer and the domain pattern matcher (template.ts).     *)
(*                                                                         *)
(* A JavaScript string is modelled as a sequence of one-character strings, *)
(* so that slicing, trimming, splitting and scanning are computed the way  *)
(* the code computes them.  A thrown TypeError is the value Thrown.        *)
(***************************************************************************)
EXTENDS Integers, Sequences, FiniteSets, TLC

VARIABLES pc, input, output, stack, visited, resolved, file, cache, timer, request

vars == <<pc, input, output, stack, visited, resolved, file, cache, timer, request>>

\* the state of a collectInheritedFields call in progress: the frames of the
\* recursion, the shared visited set, and the supertags resolved so far
walk == <<stack, visited, resolved>>

\* what outlives a call: the schema file and the schema cache's memory, and
\* the timer and the AI request that a RaycastProvider.process call started
env == <<file, cache, timer, request>>

(***************************************************************************)
(* Bounds of the explored inputs.                                          *)
(***************************************************************************)
MaxValueLen == 3
MaxTruncateLen == 5
MaxChain == 2
MaxTemplates == 3
MaxFields == 2
MaxTemplateLen == 6
MaxExprLen == 5
MaxParents == 2
MaxTemplateFields == 2
MaxSchemaFields == 2
MaxPatternLen == 4
MaxMtime == 3

(***************************************************************************)
(* JavaScript built-ins used by the code.                                  *)
(***************************************************************************)
Strings(A, n) == UNION {[1..k -> A] : k \in 0..n}

Min(a, b) == IF a < b THEN a ELSE b
Max(a, b) == IF a > b THEN a ELSE b

\* String.prototype.trim strips WhiteSpace and LineTerminator code points
WhiteSpace == {" ", "\t", "\n"}

LowerLetters == <<"a","b","c","d","e","f","g","h","i","j","k","l","m",
                  "n","o","p","q","r","s","t","u","v","w","x","y","z">>
UpperLetters == <<"A","B","C","D","E","F","G","H","I","J","K","L","M",
                  "N","O","P","Q","R","S","T","U","V","W","X","Y","Z">>
Digits == <<"0","1","2","3","4","5","6","7","8","9">>

upperChar(c) ==
    IF \E i \in 1..26 : LowerLetters[i] = c
    THEN UpperLetters[CHOOSE i \in 1..26 : LowerLetters[i] = c]
    ELSE c

lowerChar(c) ==
    IF \E i \in 1..26 : UpperLetters[i] = c
    THEN LowerLetters[CHOOSE i \in 1..26 : UpperLetters[i] = c]
    ELSE c

toUpperCase(s) == [i \in 1..Len(s) |-> upperChar(s[i])]
toLowerCase(s) == [i \in 1..Len(s) |-> lowerChar(s[i])]

\* value.slice(start, end): negative indexes count from the end, both clamp
slice(s, start, end) ==
    LET len  == Len(s)
        from == IF start < 0 THEN Max(len + start, 0) ELSE Min(start, len)
        to   == IF end < 0 THEN Max(len + end, 0) ELSE Min(end, len)
    IN  SubSeq(s, from + 1, to)

\* value.slice(start)
sliceFrom(s, start) == slice(s, start, Len(s))

RECURSIVE trimStart(_)
trimStart(s) ==
    IF s # <<>> /\ Head(s) \in WhiteSpace THEN trimStart(Tail(s)) ELSE s

RECURSIVE trimEnd(_)
trimEnd(s) ==
    IF s # <<>> /\ s[Len(s)] \in WhiteSpace
    THEN trimEnd(SubSeq(s, 1, Len(s) - 1))
    ELSE s

jsTrim(s) == trimEnd(trimStart(s))

isDigit(c) == \E i \in 1..10 : Digits[i] = c
digitValue(c) == (CHOOSE i \in 1..10 : Digits[i] = c) - 1

RECURSIVE digitPrefix(_, _)
\* value of the longest run of decimal digits at the head of s, after acc
digitPrefix(s, acc) ==
    IF s # <<>> /\ isDigit(Head(s))
    THEN digitPrefix(Tail(s), acc * 10 + digitValue(Head(s)))
    ELSE acc

\* parseInt(text, 10): leading white space, an optional sign, then digits;
\* NaN when no digit follows.  The result is [nan |-> BOOLEAN, n |-> Int].
parseInt(text) ==
    LET t    == trimStart(text)
        neg  == t # <<>> /\ Head(t) = "-"
        body == IF t # <<>> /\ Head(t) \in {"-", "+"} THEN Tail(t) ELSE t
    IN  IF body = <<>> \/ ~isDigit(Head(body))
        THEN [nan |-> TRUE, n |-> 0]
        ELSE [nan |-> FALSE,
              n |-> IF neg THEN 0 - digitPrefix(body, 0) ELSE digitPrefix(body, 0)]

RECURSIVE natToString(_)
natToString(n) ==
    IF n < 10 THEN <<Digits[n + 1]>>
    ELSE natToString(n \div 10) \o <<Digits[(n % 10) + 1]>>

\* String(n) for an integer n
numberToString(n) == IF n < 0 THEN <<"-">> \o natToString(0 - n) ELSE natToString(n)

\* the value of an exception that leaves the call
Thrown == <<"TypeError">>


(***************************************************************************)
(* filters.ts: the filter functions.  A filter takes the value and the     *)
(* sequence args of the arguments the chain passed; a parameter takes its  *)
(* default when the chain passed no argument at its position.              *)
(***************************************************************************)
str_100 == <<"1", "0", "0">>
str_200 == <<"2", "0", "0">>
str_50 == <<"5", "0">>
Ellipsis == <<".", ".", ".">>

arg(args, i, dflt) == IF Len(args) >= i THEN args[i] ELSE dflt

isBlank(value) == value = <<>> \/ jsTrim(value) = <<>>

\* truncate cutting at maxLength instead of maxLength - 3
truncateCutsAtMax(value, args) ==
    LET max == parseInt(arg(args, 1, str_100))
    IN  IF max.nan \/ Len(value) <= max.n
        THEN value
        ELSE jsTrim(slice(value, 0, max.n)) \o Ellipsis

truncate(value, args) ==
    LET maxLength == arg(args, 1, str_100)
        max == parseInt(maxLength)
    IN  IF max.nan \/ Len(value) <= max.n
        THEN value
        ELSE jsTrim(slice(value, 0, max.n - 3)) \o Ellipsis

defaultValue(value, args) ==
    LET fallback == arg(args, 1, <<>>)
    IN  IF isBlank(value) THEN fallback ELSE value

lower(value, args) == toLowerCase(value)

upper(value, args) == toUpperCase(value)

capitalize(value, args) ==
    IF value = <<>> THEN value
    ELSE toUpperCase(<<value[1]>>) \o sliceFrom(value, 1)

\* position of the first ">" of s at or after i, 0 when there is none
RECURSIVE indexOfGt(_, _)
indexOfGt(s, i) ==
    IF i > Len(s) THEN 0
    ELSE IF s[i] = ">" THEN i
    ELSE indexOfGt(s, i + 1)

\* value.replace(/<[^>]*>/g, ""): scanning from the left, a "<" with a ">"
\* somewhere after it is removed together with everything up to that ">"
RECURSIVE strip(_, _)
strip(value, args) ==
    IF value = <<>> THEN value
    ELSE IF Head(value) = "<" /\ indexOfGt(value, 2) > 0
    THEN strip(SubSeq(value, indexOfGt(value, 2) + 1, Len(value)), args)
    ELSE <<Head(value)>> \o strip(Tail(value), args)

\* value.trim().split(/\s+/).filter(Boolean).length
countWords(value) ==
    Cardinality({i \in 1..Len(value) :
        /\ value[i] \notin WhiteSpace
        /\ (i = 1 \/ value[i - 1] \in WhiteSpace)})

wordcount(value, args) == numberToString(countWords(value))

\* Math.ceil(a / b) for b # 0; String(-0) is "0"
ceilDiv(a, b) ==
    IF b > 0 THEN (a + b - 1) \div b
    ELSE 0 - (a \div (0 - b))

readtime(value, args) ==
    LET wpm == arg(args, 1, str_200)
        parsed == parseInt(wpm)
        wordsPerMinute == IF parsed.nan \/ parsed.n = 0 THEN 200 ELSE parsed.n
    IN  numberToString(ceilDiv(countWords(value), wordsPerMinute))

first(value, args) ==
    LET n == parseInt(arg(args, 1, str_100))
    IN  IF n.nan THEN value ELSE slice(value, 0, n.n)

last(value, args) ==
    LET n == parseInt(arg(args, 1, str_50))
    IN  IF n.nan THEN value ELSE sliceFrom(value, 0 - n.n)

startsWith(s, prefix) ==
    Len(s) >= Len(prefix) /\ SubSeq(s, 1, Len(prefix)) = prefix

\* value.split(search).join(replacement) for a non-empty search
RECURSIVE replaceAll(_, _, _)
replaceAll(value, search, replacement) ==
    IF value = <<>> THEN <<>>
    ELSE IF startsWith(value, search)
    THEN replacement \o replaceAll(SubSeq(value, Len(search) + 1, Len(value)),
                                   search, replacement)
    ELSE <<Head(value)>> \o replaceAll(Tail(value), search, replacement)

\* value.split("").join(replacement): the replacement goes between the
\* characters
RECURSIVE intersperse(_, _)
intersperse(value, replacement) ==
    IF Len(value) <= 1 THEN value
    ELSE <<Head(value)>> \o replacement \o intersperse(Tail(value), replacement)

replace(value, args) ==
    LET search == arg(args, 1, <<>>)
        replacement == arg(args, 2, <<>>)
    IN  IF search = <<>> THEN intersperse(value, replacement)
        ELSE replaceAll(value, search, replacement)

trim(value, args) == jsTrim(value)

wrap(value, args) ==
    LET prefix == arg(args, 1, <<>>)
        suffix == arg(args, 2, <<>>)
    IN  IF isBlank(value) THEN <<>> ELSE prefix \o value \o suffix

hideif(value, args) ==
    LET pattern == arg(args, 1, <<>>)
    IN  IF value = pattern \/ toLowerCase(value) = toLowerCase(pattern)
        THEN <<>>
        ELSE value

\* position at which search first occurs in s at or after i, 0 when nowhere
RECURSIVE indexOf(_, _, _)
indexOf(s, search, i) ==
    IF i + Len(search) - 1 > Len(s) THEN 0
    ELSE IF SubSeq(s, i, i + Len(search) - 1) = search THEN i
    ELSE indexOf(s, search, i + 1)

\* pattern.replace(search, replacement) with a string search: the first
\* occurrence only
replaceFirst(s, search, replacement) ==
    LET i == indexOf(s, search, 1)
    IN  IF i = 0 THEN s
        ELSE SubSeq(s, 1, i - 1) \o replacement \o SubSeq(s, i + Len(search), Len(s))

allDigits(s) == \A i \in 1..Len(s) : isDigit(s[i])

\* new Date(value) for the date-time form YYYY-MM-DDTHH:mm:ss, which is read
\* as local time; every other text of the explored values (letters, blanks,
\* punctuation, no digits) is an Invalid Date
parseDate(value) ==
    IF /\ Len(value) = 19
       /\ value[5] = "-" /\ value[8] = "-" /\ value[11] = "T"
       /\ value[14] = ":" /\ value[17] = ":"
       /\ allDigits(SubSeq(value, 1, 4)) /\ allDigits(SubSeq(value, 6, 7))
       /\ allDigits(SubSeq(value, 9, 10)) /\ allDigits(SubSeq(value, 12, 13))
       /\ allDigits(SubSeq(value, 15, 16)) /\ allDigits(SubSeq(value, 18, 19))
       /\ digitPrefix(SubSeq(value, 6, 7), 0) \in 1..12
       /\ digitPrefix(SubSeq(value, 9, 10), 0) \in 1..28
       /\ digitPrefix(SubSeq(value, 12, 13), 0) \in 0..23
       /\ digitPrefix(SubSeq(value, 15, 16), 0) \in 0..59
       /\ digitPrefix(SubSeq(value, 18, 19), 0) \in 0..59
    THEN [valid |-> TRUE,
          year |-> SubSeq(value, 1, 4), month |-> SubSeq(value, 6, 7),
          day |-> SubSeq(value, 9, 10), hours |-> SubSeq(value, 12, 13),
          minutes |-> SubSeq(value, 15, 16), seconds |-> SubSeq(value, 18, 19)]
    ELSE [valid |-> FALSE]

str_YYYY_MM_DD == <<"Y", "Y", "Y", "Y", "-", "M", "M", "-", "D", "D">>

format(value, args) ==
    LET pattern == arg(args, 1, str_YYYY_MM_DD)
        date == parseDate(value)
    IN  IF ~date.valid THEN value
        ELSE replaceFirst(replaceFirst(replaceFirst(replaceFirst(replaceFirst(
               replaceFirst(pattern, <<"Y", "Y", "Y", "Y">>, date.year),
               <<"M", "M">>, date.month),
               <<"D", "D">>, date.day),
               <<"H", "H">>, date.hours),
               <<"m", "m">>, date.minutes),
               <<"s", "s">>, date.seconds)

\* JSON.parse(value) for an array of strings without escapes, as
\* JSON.stringify writes a string array whose elements need no escaping:
\* [ok |-> TRUE, arr |-> the elements], or ok = FALSE for a SyntaxError.
SyntaxError == [ok |-> FALSE, arr |-> <<>>]

RECURSIVE parseJsonElements(_, _)
\* s starts at the opening quote of an element
parseJsonElements(s, acc) ==
    IF s = <<>> \/ Head(s) # "\"" THEN SyntaxError
    ELSE LET close == indexOf(s, <<"\"">>, 2)
         IN  IF close = 0 THEN SyntaxError
             ELSE LET elem == SubSeq(s, 2, close - 1)
                      rest == SubSeq(s, close + 1, Len(s))
                  IN  IF \E i \in 1..Len(elem) : elem[i] = "\\"
                      THEN SyntaxError
                      ELSE IF rest = <<"]">>
                      THEN [ok |-> TRUE, arr |-> Append(acc, elem)]
                      ELSE IF rest # <<>> /\ Head(rest) = ","
                      THEN parseJsonElements(Tail(rest), Append(acc, elem))
                      ELSE SyntaxError

parseJsonArray(value) ==
    IF value = <<"[", "]">> THEN [ok |-> TRUE, arr |-> <<>>]
    ELSE IF value # <<>> /\ Head(value) = "["
    THEN parseJsonElements(Tail(value), <<>>)
    ELSE SyntaxError

\* arr.join(separator)
RECURSIVE arrayJoin(_, _)
arrayJoin(arr, separator) ==
    IF arr = <<>> THEN <<>>
    ELSE IF Len(arr) = 1 THEN arr[1]
    ELSE arr[1] \o separator \o arrayJoin(Tail(arr), separator)

str_comma_space == <<",", " ">>

join(value, args) ==
    LET separator == arg(args, 1, str_comma_space)
    IN  IF value # <<>> /\ Head(value) = "["
        THEN LET parsed == parseJsonArray(value)
             IN  IF ~parsed.ok THEN value
                 ELSE arrayJoin(parsed.arr, separator)
        ELSE value

(***************************************************************************)
(* filters.ts: the registry, the parser of one filter expression and the   *)
(* chain.                                                                  *)
(***************************************************************************)
name_truncate == <<"t", "r", "u", "n", "c", "a", "t", "e">>
name_default == <<"d", "e", "f", "a", "u", "l", "t">>
name_lower == <<"l", "o", "w", "e", "r">>
name_upper == <<"u", "p", "p", "e", "r">>
name_capitalize == <<"c", "a", "p", "i", "t", "a", "l", "i", "z", "e">>
name_strip == <<"s", "t", "r", "i", "p">>
name_wordcount == <<"w", "o", "r", "d", "c", "o", "u", "n", "t">>
name_readtime == <<"r", "e", "a", "d", "t", "i", "m", "e">>
name_format == <<"f", "o", "r", "m", "a", "t">>
name_first == <<"f", "i", "r", "s", "t">>
name_last == <<"l", "a", "s", "t">>
name_replace == <<"r", "e", "p", "l", "a", "c", "e">>
name_trim == <<"t", "r", "i", "m">>
name_join == <<"j", "o", "i", "n">>
name_wrap == <<"w", "r", "a", "p">>
name_hideif == <<"h", "i", "d", "e", "i", "f">>

\* the keys of the defaultFilters object
defaultFilters ==
    {name_truncate, name_default, name_lower, name_upper, name_capitalize,
     name_strip, name_wordcount, name_readtime, name_format, name_first,
     name_last, name_replace, name_trim, name_join, name_wrap, name_hideif}

\* defaultFilters is an object literal: registry[filterName] also finds the
\* properties it inherits from Object.prototype
name___proto__ == <<"_", "_", "p", "r", "o", "t", "o", "_", "_">>
name_toString == <<"t", "o", "S", "t", "r", "i", "n", "g">>
name_constructor == <<"c", "o", "n", "s", "t", "r", "u", "c", "t", "o", "r">>
name_valueOf == <<"v", "a", "l", "u", "e", "O", "f">>
str_object_Undefined ==
    <<"[", "o", "b", "j", "e", "c", "t", " ",
      "U", "n", "d", "e", "f", "i", "n", "e", "d", "]">>

ObjectPrototype == {name___proto__, name_toString, name_constructor, name_valueOf}

\* filterFn(result, ...args) for the value registry[filterName] finds
callFilter(filterName, result, args) ==
    CASE filterName = name_truncate -> truncate(result, args)
      [] filterName = name_default -> defaultValue(result, args)
      [] filterName = name_lower -> lower(result, args)
      [] filterName = name_upper -> upper(result, args)
      [] filterName = name_capitalize -> capitalize(result, args)
      [] filterName = name_strip -> strip(result, args)
      [] filterName = name_wordcount -> wordcount(result, args)
      [] filterName = name_readtime -> readtime(result, args)
      [] filterName = name_format -> format(result, args)
      [] filterName = name_first -> first(result, args)
      [] filterName = name_last -> last(result, args)
      [] filterName = name_replace -> replace(result, args)
      [] filterName = name_trim -> trim(result, args)
      [] filterName = name_join -> join(result, args)
      [] filterName = name_wrap -> wrap(result, args)
      [] filterName = name_hideif -> hideif(result, args)
      \* Object.prototype.__proto__ is an object, not a function: the call
      \* throws TypeError
      [] filterName = name___proto__ -> Thrown
      \* Object.prototype.toString called with this undefined
      [] filterName = name_toString -> str_object_Undefined
      \* Object(result): a String object of the same characters
      [] filterName = name_constructor -> result
      \* Object.prototype.valueOf called with this undefined throws TypeError
      [] filterName = name_valueOf -> Thrown

includes(s, c) == \E i \in 1..Len(s) : s[i] = c

\* the loop splitting at every ":", inside quotes as outside
RECURSIVE parseArgsEveryColon(_, _, _, _, _, _)
parseArgsEveryColon(argsString, i, args, current, inQuote, quoteChar) ==
    IF i > Len(argsString)
    THEN IF current # <<>> THEN Append(args, jsTrim(current)) ELSE args
    ELSE LET char == argsString[i]
         IN  IF (char = "\"" \/ char = "'") /\ ~inQuote
             THEN parseArgsEveryColon(argsString, i + 1, args, current, TRUE, char)
             ELSE IF inQuote /\ char = quoteChar
             THEN parseArgsEveryColon(argsString, i + 1, args, current, FALSE, "")
             ELSE IF char = ":"
             THEN parseArgsEveryColon(argsString, i + 1,
                                      Append(args, jsTrim(current)),
                                      <<>>, inQuote, quoteChar)
             ELSE parseArgsEveryColon(argsString, i + 1, args,
                                      Append(current, char), inQuote, quoteChar)

\* the loop of parseFilterExpression over argsString from position i, with
\* the loop's variables args, current, inQuote and quoteChar
RECURSIVE parseArgs(_, _, _, _, _, _)
parseArgs(argsString, i, args, current, inQuote, quoteChar) ==
    IF i > Len(argsString)
    THEN IF current # <<>> THEN Append(args, jsTrim(current)) ELSE args
    ELSE LET char == argsString[i]
         IN  IF (char = "\"" \/ char = "'") /\ ~inQuote
             THEN parseArgs(argsString, i + 1, args, current, TRUE, char)
             ELSE IF inQuote /\ char = quoteChar
             THEN parseArgs(argsString, i + 1, args, current, FALSE, "")
             ELSE IF char = ":" /\ ~inQuote
             THEN parseArgs(argsString, i + 1, Append(args, jsTrim(current)),
                            <<>>, inQuote, quoteChar)
             ELSE parseArgs(argsString, i + 1, args, Append(current, char),
                            inQuote, quoteChar)

\* <<filterName, arg1, ...>>
parseFilterExpression(expr) ==
    IF ~includes(expr, ":") THEN <<jsTrim(expr)>>
    ELSE LET colonIndex == indexOf(expr, <<":">>, 1)
             filterName == jsTrim(SubSeq(expr, 1, colonIndex - 1))
             argsString == SubSeq(expr, colonIndex + 1, Len(expr))
         IN  <<filterName>> \o parseArgs(argsString, 1, <<>>, <<>>, FALSE, "")

\* one turn of the loop of applyFilters
applyFilter(result, filterExpr) ==
    LET parsed == parseFilterExpression(filterExpr)
        filterName == Head(parsed)
        args == Tail(parsed)
    IN  IF filterName \in defaultFilters \cup ObjectPrototype
        THEN callFilter(filterName, result, args)
        ELSE result

\* applyFilters running the chain from its last filter to its first
RECURSIVE applyFiltersReversed(_, _)
applyFiltersReversed(value, filterChain) ==
    IF filterChain = <<>> THEN value
    ELSE LET result == applyFilter(value, filterChain[Len(filterChain)])
         IN  IF result = Thrown THEN Thrown
             ELSE applyFiltersReversed(result,
                      SubSeq(filterChain, 1, Len(filterChain) - 1))

RECURSIVE applyFilters(_, _)
applyFilters(value, filterChain) ==
    IF filterChain = <<>> THEN value
    ELSE LET result == applyFilter(value, Head(filterChain))
         IN  IF result = Thrown THEN Thrown
             ELSE applyFilters(result, Tail(filterChain))

(***************************************************************************)
(* template.ts: the domain pattern matcher.                                *)
(***************************************************************************)
str_http == <<"h", "t", "t", "p">>
str_https == <<"h", "t", "t", "p", "s">>
str_www_dot == <<"w", "w", "w", ".">>

\* position of the first character of s that is in set, Len(s) + 1 if none
RECURSIVE indexOfAny(_, _, _)
indexOfAny(s, set, i) ==
    IF i > Len(s) THEN Len(s) + 1
    ELSE IF s[i] \in set THEN i
    ELSE indexOfAny(s, set, i + 1)

RECURSIVE skipSlashes(_)
skipSlashes(s) ==
    IF s # <<>> /\ Head(s) \in {"/", "\\"} THEN skipSlashes(Tail(s)) ELSE s

isLetter(c) == \E i \in 1..26 : LowerLetters[i] = c \/ UpperLetters[i] = c

isScheme(s) ==
    /\ s # <<>>
    /\ isLetter(s[1])
    /\ \A i \in 1..Len(s) : isLetter(s[i]) \/ isDigit(s[i]) \/ s[i] \in {"+", "-", "."}

ForbiddenHostChars == {" ", "<", ">", "[", "]", "^", "|", "\\", "%", "@", ":"}

URLTypeError == [ok |-> FALSE, hostname |-> <<>>, pathname |-> <<>>]

\* new URL(url) without a base, for the URLs explored here (no credentials,
\* port, dot segments or characters that are percent-encoded): the hostname
\* and pathname of the parsed URL, or URLTypeError when the constructor
\* throws.  A url needs a scheme; after http: and https: the slashes are
\* skipped, the host is required, is lower-cased and may hold no forbidden
\* character, and an empty path is "/"; another scheme has an opaque path
\* and an empty hostname.  The query and the fragment are in neither.
parseURL(url) ==
    LET colon == indexOf(url, <<":">>, 1)
        scheme == toLowerCase(SubSeq(url, 1, colon - 1))
        rest == SubSeq(url, colon + 1, Len(url))
    IN  IF colon = 0 \/ ~isScheme(scheme) THEN URLTypeError
        ELSE IF scheme \in {str_http, str_https}
        THEN LET authority == skipSlashes(rest)
                 hostEnd == indexOfAny(authority, {"/", "\\", "?", "#"}, 1)
                 host == SubSeq(authority, 1, hostEnd - 1)
                 afterHost == SubSeq(authority, hostEnd, Len(authority))
                 pathEnd == indexOfAny(afterHost, {"?", "#"}, 1)
                 path == SubSeq(afterHost, 1, pathEnd - 1)
             IN  IF host = <<>> \/ \E k \in 1..Len(host) : host[k] \in ForbiddenHostChars
                 THEN URLTypeError
                 ELSE [ok |-> TRUE,
                       hostname |-> toLowerCase(host),
                       pathname |-> IF path = <<>> THEN <<"/">> ELSE path]
        ELSE [ok |-> TRUE,
              hostname |-> <<>>,
              pathname |-> SubSeq(rest, 1, indexOfAny(rest, {"?", "#"}, 1) - 1)]

\* parsed.hostname.replace(/^www\./, "")
stripWww(hostname) ==
    IF startsWith(hostname, str_www_dot)
    THEN SubSeq(hostname, Len(str_www_dot) + 1, Len(hostname))
    ELSE hostname

\* The regular expression built from the pattern: the characters
\* . + ? ^ $ { } ( ) | [ ] \ are escaped, so every character but "*" stands
\* for itself, and "*" becomes ".*".
AnyRun == [kind |-> "any", char |-> ""]
Literal(c) == [kind |-> "literal", char |-> c]

\* regexPattern leaving "*" a literal character
regexPatternStarLiteral(pattern) ==
    [i \in 1..Len(pattern) |-> Literal(pattern[i])]

regexPattern(pattern) ==
    [i \in 1..Len(pattern) |->
        IF pattern[i] = "*" THEN AnyRun ELSE Literal(pattern[i])]

\* "." matches every character but a line terminator
LineTerminators == {"\n", "\r"}

\* new RegExp("^" + regexPattern + "$", "i").test(s): characters compare
\* by their upper-case forms
RECURSIVE regexTest(_, _)
regexTest(regex, s) ==
    IF regex = <<>> THEN s = <<>>
    ELSE IF Head(regex).kind = "any"
    THEN \E k \in 0..Len(s) :
            /\ \A j \in 1..k : s[j] \notin LineTerminators
            /\ regexTest(Tail(regex), SubSeq(s, k + 1, Len(s)))
    ELSE /\ s # <<>>
         /\ upperChar(Head(regex).char) = upperChar(Head(s))
         /\ regexTest(Tail(regex), Tail(s))

\* matchesDomainPattern falling back to the raw text when the URL does not
\* parse, as createTemplateContext does for the domain
matchesDomainPatternRawFallback(url, pattern) ==
    LET parsed == parseURL(url)
        hostname == stripWww(parsed.hostname)
        fullPath == hostname \o parsed.pathname
        regex == regexPattern(pattern)
    IN  IF ~parsed.ok THEN regexTest(regex, url)
        ELSE regexTest(regex, fullPath) \/ regexTest(regex, hostname)

matchesDomainPattern(url, pattern) ==
    LET parsed == parseURL(url)
        hostname == stripWww(parsed.hostname)
        fullPath == hostname \o parsed.pathname
        regex == regexPattern(pattern)
    IN  IF ~parsed.ok THEN FALSE   \* catch: return false
        ELSE regexTest(regex, fullPath) \/ regexTest(regex, hostname)

count(s, c) == Cardinality({i \in 1..Len(s) : s[i] = c})

\* the score with no exception for the catch-all pattern
getSpecificityOfAnyPattern(pattern) ==
    Len(SelectSeq(pattern, LAMBDA c : c # "*")) * 10 + count(pattern, "/") + 1

getSpecificity(pattern) ==
    IF pattern = <<"*">> THEN 0
    ELSE LET literalChars == Len(pattern) - count(pattern, "*")
             segments == count(pattern, "/") + 1
         IN  literalChars * 10 + segments

\* Math.max() of no number is -Infinity, which is below every score and
\* compares equal to itself in the sort (NaN counts as 0); -1 stands for it
NegInfinity == -1

RECURSIVE maxOfSeq(_)
maxOfSeq(numbers) ==
    IF numbers = <<>> THEN NegInfinity
    ELSE Max(Head(numbers), maxOfSeq(Tail(numbers)))

getTemplateSpecificity(template) ==
    maxOfSeq([k \in 1..Len(template.triggers) |->
                 getSpecificity(template.triggers[k])])

\* insertBySpecificity with the comparator's operands swapped: ascending
RECURSIVE insertAscending(_, _)
insertAscending(sorted, template) ==
    IF sorted = <<>> THEN <<template>>
    ELSE IF getTemplateSpecificity(Head(sorted)) - getTemplateSpecificity(template) > 0
    THEN <<template>> \o sorted
    ELSE <<Head(sorted)>> \o insertAscending(Tail(sorted), template)

\* sorted with template put where a stable sort by descending specificity
\* leaves it: behind every template that does not score less
RECURSIVE insertBySpecificity(_, _)
insertBySpecificity(sorted, template) ==
    IF sorted = <<>> THEN <<template>>
    ELSE IF getTemplateSpecificity(template) - getTemplateSpecificity(Head(sorted)) > 0
    THEN <<template>> \o sorted
    ELSE <<Head(sorted)>> \o insertBySpecificity(Tail(sorted), template)

\* [...templates].sort((a, b) => getTemplateSpecificity(b) - getTemplateSpecificity(a))
RECURSIVE sortTemplates(_)
sortTemplates(templates) ==
    IF templates = <<>> THEN <<>>
    ELSE insertBySpecificity(
             sortTemplates(SubSeq(templates, 1, Len(templates) - 1)),
             templates[Len(templates)])

Undefined == [id |-> "undefined", triggers |-> <<>>]

anyTriggerMatches(url, template) ==
    \E k \in 1..Len(template.triggers) :
        matchesDomainPattern(url, template.triggers[k])

\* the loops over sortedTemplates and over each template's triggers
RECURSIVE firstMatching(_, _)
firstMatching(url, sortedTemplates) ==
    IF sortedTemplates = <<>> THEN Undefined
    ELSE IF anyTriggerMatches(url, Head(sortedTemplates))
    THEN Head(sortedTemplates)
    ELSE firstMatching(url, Tail(sortedTemplates))

\* findMatchingTemplate scanning the templates in the order given
findMatchingTemplateUnsorted(url, templates) ==
    firstMatching(url, templates)

findMatchingTemplate(url, templates) ==
    firstMatching(url, sortTemplates(templates))

(***************************************************************************)
(* template.ts: the renderer.  A value of the context is a record          *)
(* [type, text, num, items, props]: a string (text), a number (num), an array of  *)
(* strings (items), an object whose properties are strings (props, a       *)
(* sequence of <<name, text>> pairs), or undefined.                        *)
(***************************************************************************)
JsUndefined == [type |-> "undefined", text |-> <<>>, num |-> 0, items |-> <<>>, props |-> <<>>]
JsString(text) == [type |-> "string", text |-> text, num |-> 0, items |-> <<>>, props |-> <<>>]
JsNumber(n) == [type |-> "number", text |-> <<>>, num |-> n, items |-> <<>>, props |-> <<>>]
JsArray(items) == [type |-> "array", text |-> <<>>, num |-> 0, items |-> items, props |-> <<>>]
JsObject(props) == [type |-> "object", text |-> <<>>, num |-> 0, items |-> <<>>, props |-> props]

\* text.split(separator) for a separator of one character
RECURSIVE splitOn(_, _)
splitOn(text, separator) ==
    LET at == indexOf(text, <<separator>>, 1)
    IN  IF at = 0 THEN <<text>>
        ELSE <<SubSeq(text, 1, at - 1)>>
                 \o splitOn(SubSeq(text, at + 1, Len(text)), separator)

\* <<variableName, filterExpressions>>
parseVariableExpression(expression) ==
    LET split == splitOn(expression, "|")
        parts == [k \in 1..Len(split) |-> jsTrim(split[k])]
    IN  <<Head(parts), Tail(parts)>>

\* a string between double quotes, with " and \ escaped
RECURSIVE jsonEscape(_)
jsonEscape(text) ==
    IF text = <<>> THEN <<>>
    ELSE (IF Head(text) \in {"\"", "\\"} THEN <<"\\", Head(text)>> ELSE <<Head(text)>>)
             \o jsonEscape(Tail(text))

RECURSIVE jsonItems(_)
jsonItems(items) ==
    IF items = <<>> THEN <<>>
    ELSE <<"\"">> \o jsonEscape(Head(items)) \o <<"\"">>
            \o (IF Len(items) > 1 THEN <<",">> ELSE <<>>)
            \o jsonItems(Tail(items))

\* JSON.stringify of an array of strings
jsonStringify(items) == <<"[">> \o jsonItems(items) \o <<"]">>

name_keypoints == <<"k", "e", "y", "p", "o", "i", "n", "t", "s">>
name_length == <<"l", "e", "n", "g", "t", "h">>
str_object_Object ==
    <<"[", "o", "b", "j", "e", "c", "t", " ", "O", "b", "j", "e", "c", "t", "]">>

\* the value of the pair named part in a sequence of <<name, value>> pairs
lookup(pairs, part, absent) ==
    IF \E k \in 1..Len(pairs) : pairs[k][1] = part
    THEN pairs[CHOOSE k \in 1..Len(pairs) : pairs[k][1] = part][2]
    ELSE absent

\* a canonical array index: "0", or digits that do not start with "0"
isIndex(part) ==
    /\ part # <<>>
    /\ allDigits(part)
    /\ (Len(part) > 1 => part[1] # "0")

\* value[part] for a value below the context: own properties and the
\* length and the elements of strings and arrays (inherited methods are
\* left out)
getProperty(value, part) ==
    CASE value.type = "object" ->
            IF \E k \in 1..Len(value.props) : value.props[k][1] = part
            THEN JsString(lookup(value.props, part, <<>>))
            ELSE JsUndefined
      [] value.type = "string" ->
            IF part = name_length THEN JsNumber(Len(value.text))
            ELSE IF isIndex(part) /\ digitPrefix(part, 0) < Len(value.text)
            THEN JsString(<<value.text[digitPrefix(part, 0) + 1]>>)
            ELSE JsUndefined
      [] value.type = "array" ->
            IF part = name_length THEN JsNumber(Len(value.items))
            ELSE IF isIndex(part) /\ digitPrefix(part, 0) < Len(value.items)
            THEN JsString(value.items[digitPrefix(part, 0) + 1])
            ELSE JsUndefined
      [] OTHER -> JsUndefined

\* the loop of getContextValue over the parts after the first
RECURSIVE walkPath(_, _)
walkPath(value, parts) ==
    IF parts = <<>> THEN value
    ELSE IF value.type = "undefined" THEN JsUndefined
    ELSE walkPath(getProperty(value, Head(parts)), Tail(parts))

\* the conversion to a string at the end of getContextValue
valueToString(value) ==
    CASE value.type = "undefined" -> <<>>
      [] value.type = "number" -> numberToString(value.num)
      [] value.type = "array" -> jsonStringify(value.items)
      [] value.type = "string" -> value.text
      [] value.type = "object" -> str_object_Object

\* context: a sequence of <<name, value>> pairs, the context's own properties
getContextValue(context, variableName) ==
    IF variableName = name_keypoints
          /\ lookup(context, name_keypoints, JsUndefined).type = "array"
    THEN jsonStringify(lookup(context, name_keypoints, JsUndefined).items)
    ELSE LET parts == splitOn(variableName, ".")
         IN  valueToString(
                 walkPath(lookup(context, Head(parts), JsUndefined), Tail(parts)))

\* the length of the match of /\{\{([^}]+)\}\}/ at the head of text, 0 when
\* it does not match there: "{{", one or more characters other than "}",
\* then "}}"
matchVariable(text) ==
    IF Len(text) >= 2 /\ text[1] = "{" /\ text[2] = "{"
    THEN LET close == indexOf(text, <<"}">>, 3)
         IN  IF close > 3 /\ close + 1 <= Len(text) /\ text[close + 1] = "}"
             THEN close + 1
             ELSE 0
    ELSE 0

\* the replacer callback of renderTemplateString for one placeholder
renderVariable(expression, context) ==
    LET parsed == parseVariableExpression(expression)
        variableName == parsed[1]
        filterExprs == parsed[2]
        value == getContextValue(context, variableName)
    IN  IF Len(filterExprs) > 0 THEN applyFilters(value, filterExprs) ELSE value

\* a pass that renders once more a substituted value that reads as a
\* placeholder
RECURSIVE renderTemplateStringExpandingValues(_, _)
renderTemplateStringExpandingValues(template, context) ==
    IF template = <<>> THEN <<>>
    ELSE LET matched == matchVariable(template)
         IN  IF matched = 0
             THEN <<Head(template)>>
                      \o renderTemplateStringExpandingValues(Tail(template), context)
             ELSE LET value == renderVariable(SubSeq(template, 3, matched - 2), context)
                      again == IF value # <<>> /\ matchVariable(value) = Len(value)
                               THEN renderVariable(SubSeq(value, 3, Len(value) - 2),
                                                   context)
                               ELSE value
                  IN  again \o renderTemplateStringExpandingValues(
                                   SubSeq(template, matched + 1, Len(template)),
                                   context)

\* template.replace(VARIABLE_REGEX, callback): one pass from the left, each
\* match replaced by the callback's text, everything else copied
RECURSIVE renderTemplateString(_, _)
renderTemplateString(template, context) ==
    IF template = <<>> THEN <<>>
    ELSE LET matched == matchVariable(template)
         IN  IF matched = 0
             THEN LET rest == renderTemplateString(Tail(template), context)
                  IN  IF rest = Thrown THEN Thrown ELSE <<Head(template)>> \o rest
             ELSE LET value == renderVariable(SubSeq(template, 3, matched - 2), context)
                      rest == renderTemplateString(
                                  SubSeq(template, matched + 1, Len(template)), context)
                  IN  IF value = Thrown \/ rest = Thrown THEN Thrown
                      ELSE value \o rest

\* an optional value: <<>> when absent, <<v>> when present
None == <<>>
Some(v) == <<v>>

\* the result of a renderTemplate call that a filter's TypeError left
RenderThrown == [supertag |-> Thrown, fields |-> <<>>, content |-> None]

\* renderTemplate keeping every field, blank or not
renderTemplateKeepsBlank(template, context) ==
    LET supertag == renderTemplateString(template.supertag, context)
        renderedValue(fieldName) ==
            renderTemplateString(template.fields[fieldName], context)
    IN  [supertag |-> supertag,
         fields |-> [fieldName \in DOMAIN template.fields |-> renderedValue(fieldName)],
         content |-> None]

\* template: [supertag, fields, contentTemplate], fields a function from the
\* field names to their template strings, contentTemplate optional
renderTemplate(template, context) ==
    LET supertag == renderTemplateString(template.supertag, context)
        renderedValue(fieldName) ==
            renderTemplateString(template.fields[fieldName], context)
        \* only include non-empty fields
        included == {fieldName \in DOMAIN template.fields :
                        jsTrim(renderedValue(fieldName)) # <<>>}
        fields == [fieldName \in included |-> renderedValue(fieldName)]
        hasContent == template.contentTemplate # None
                         /\ template.contentTemplate[1] # <<>>
        rendered == renderTemplateString(template.contentTemplate[1], context)
        content == IF ~hasContent THEN None
                   ELSE IF jsTrim(rendered) = <<>> THEN None
                   ELSE Some(rendered)
    IN  IF \/ supertag = Thrown
           \/ \E fieldName \in DOMAIN template.fields : renderedValue(fieldName) = Thrown
           \/ (hasContent /\ rendered = Thrown)
        THEN RenderThrown
        ELSE [supertag |-> supertag, fields |-> fields, content |-> content]

\* a property of a Partial<ClipTemplate> that is absent or a blank text
missingText(property) == property = None \/ isBlank(property[1])

\* validateTemplate returning at the first error it finds
validateTemplateFirstError(template) ==
    IF missingText(template.id) THEN <<"Template ID is required">>
    ELSE IF missingText(template.name) THEN <<"Template name is required">>
    ELSE IF template.triggers = None \/ Len(template.triggers[1]) = 0
    THEN <<"At least one trigger pattern is required">>
    ELSE IF missingText(template.supertag) THEN <<"Supertag is required">>
    ELSE IF template.fields = None \/ Cardinality(DOMAIN template.fields[1]) = 0
    THEN <<"At least one field mapping is required">>
    ELSE <<>>

\* template: [id, name, triggers, supertag, fields], each property optional
validateTemplate(template) ==
    (IF missingText(template.id)
     THEN <<"Template ID is required">> ELSE <<>>)
    \o (IF missingText(template.name)
        THEN <<"Template name is required">> ELSE <<>>)
    \o (IF template.triggers = None \/ Len(template.triggers[1]) = 0
        THEN <<"At least one trigger pattern is required">> ELSE <<>>)
    \o (IF missingText(template.supertag)
        THEN <<"Supertag is required">> ELSE <<>>)
    \o (IF template.fields = None \/ Cardinality(DOMAIN template.fields[1]) = 0
        THEN <<"At least one field mapping is required">> ELSE <<>>)

(***************************************************************************)
(* field-mapper-smart.test.ts: schema cache field inheritance.  A          *)
(* CachedSupertag is [id, name, fields, extends], extends being empty when *)
(* the supertag has none; allSupertags is the sequence of the map's        *)
(* values.  The recursion is modelled by its frames: [supertag, depth,     *)
(* allFields, next], next being the position in extends of the parent to   *)
(* resolve next; seenFieldNames holds the names of allFields.              *)
(***************************************************************************)
\* seenFieldNames.has(name)
hasName(allFields, name) == \E i \in DOMAIN allFields : allFields[i].name = name

\* {...field, originTagName, depth}
tagged(field, originTagName, depth) ==
    [attributeId |-> field.attributeId, name |-> field.name,
     normalizedName |-> field.normalizedName, dataType |-> field.dataType,
     targetSupertag |-> field.targetSupertag,
     originTagName |-> originTagName, depth |-> depth]

\* the loop over supertag.fields
RECURSIVE addOwnFields(_, _, _, _)
addOwnFields(allFields, fields, originTagName, depth) ==
    IF fields = <<>> THEN allFields
    ELSE LET field == Head(fields)
         IN  addOwnFields(IF hasName(allFields, field.name) THEN allFields
                          ELSE Append(allFields, tagged(field, originTagName, depth)),
                          Tail(fields), originTagName, depth)

\* the loop over parentFields with no check of the names seen
addParentFieldsKeepingAll(allFields, parentFields) == allFields \o parentFields

\* the loop over parentFields with own fields served before the parents'
addParentFieldsOverriding(allFields, parentFields) ==
    parentFields \o SelectSeq(allFields,
                              LAMBDA field : ~hasName(parentFields, field.name))

\* the loop over parentFields with a parent's field put in the place of the
\* entry of its name
RECURSIVE addParentFieldsReplacing(_, _)
addParentFieldsReplacing(allFields, parentFields) ==
    IF parentFields = <<>> THEN allFields
    ELSE LET field == Head(parentFields)
         IN  addParentFieldsReplacing(
                 IF hasName(allFields, field.name)
                 THEN [i \in DOMAIN allFields |->
                          IF allFields[i].name = field.name THEN field
                          ELSE allFields[i]]
                 ELSE Append(allFields, field),
                 Tail(parentFields))

\* the loop over parentFields
RECURSIVE addParentFields(_, _)
addParentFields(allFields, parentFields) ==
    IF parentFields = <<>> THEN allFields
    ELSE LET field == Head(parentFields)
         IN  addParentFields(IF hasName(allFields, field.name) THEN allFields
                             ELSE Append(allFields, field),
                             Tail(parentFields))

\* Array.from(allSupertags.values()).find((s) => s.id === parentId): the
\* supertags of that id, the first of which is the parent
withId(allSupertags, parentId) ==
    SelectSeq(allSupertags, LAMBDA s : s.id = parentId)

\* the guard checking the supertags being resolved, not all resolved ones
isOnStack(supertagId) == \E i \in DOMAIN stack : stack[i].supertag.id = supertagId

\* visited.has(supertag.id)
isVisited(supertagId) == supertagId \in visited

\* the frame of a call that tags the own fields with depth 0 whatever the
\* depth of the call
enterIgnoringDepth(supertag, depth) ==
    [supertag |-> supertag, depth |-> depth,
     allFields |-> addOwnFields(<<>>, supertag.fields, supertag.name, 0),
     next |-> 1]

\* the frame of a call that passed the guard, after the loop over own fields
enter(supertag, depth) ==
    [supertag |-> supertag, depth |-> depth,
     allFields |-> addOwnFields(<<>>, supertag.fields, supertag.name, depth),
     next |-> 1]

(***************************************************************************)
(* The smart field mapper (web-clipper/field-mapper-smart), after its      *)
(* specification: each template field name resolves, ignoring case, to a   *)
(* schema field of that name, or else to a schema field of one of its      *)
(* synonym groups, or else is unmapped.  Which field is taken when several *)
(* match alike is left open: createSmartFieldMapping is the set of the     *)
(* mappings allowed.  fieldMap is the set of its <<key, value>> entries.   *)
(***************************************************************************)
\* the synonym groups, in lower case
SynonymGroups ==
    {{<<"c", "h", "a", "n", "n", "e", "l">>,
      <<"a", "u", "t", "h", "o", "r">>,
      <<"c", "r", "e", "a", "t", "o", "r">>,
      <<"b", "y">>},
     {<<"d", "e", "s", "c", "r", "i", "p", "t", "i", "o", "n">>,
      <<"s", "u", "m", "m", "a", "r", "y">>,
      <<"e", "x", "c", "e", "r", "p", "t">>,
      <<"a", "b", "o", "u", "t">>},
     {<<"u", "r", "l">>,
      <<"l", "i", "n", "k">>,
      <<"s", "o", "u", "r", "c", "e">>,
      <<"h", "r", "e", "f">>},
     {<<"c", "l", "i", "p", "p", "e", "d">>,
      <<"d", "a", "t", "e">>,
      <<"a", "d", "d", "e", "d">>,
      <<"c", "r", "e", "a", "t", "e", "d">>,
      <<"s", "a", "v", "e", "d">>},
     {<<"r", "e", "a", "d", "i", "n", "g", " ", "t", "i", "m", "e">>,
      <<"d", "u", "r", "a", "t", "i", "o", "n">>,
      <<"l", "e", "n", "g", "t", "h">>,
      <<"t", "i", "m", "e">>},
     {<<"s", "i", "t", "e">>,
      <<"s", "o", "u", "r", "c", "e">>,
      <<"w", "e", "b", "s", "i", "t", "e">>,
      <<"d", "o", "m", "a", "i", "n">>}}

\* the positions of the schema fields whose name is name, ignoring case
exactMatches(name, fields) ==
    LET lowered == toLowerCase(name)
    IN  {i \in DOMAIN fields : toLowerCase(fields[i].name) = lowered}

\* the positions of the schema fields of a synonym group of name
synonymMatches(name, fields) ==
    LET lowered == toLowerCase(name)
        groups == {group \in SynonymGroups : lowered \in group}
    IN  {i \in DOMAIN fields :
            groups # {} /\ toLowerCase(fields[i].name) \in UNION groups}

\* matching with no priority of the exact name over a synonym
candidatesOfAnyKind(name, fields) ==
    exactMatches(name, fields) \cup synonymMatches(name, fields)

\* the fields a template field name may resolve to: (1) exact name match,
\* (2) synonym group
candidates(name, fields) ==
    IF exactMatches(name, fields) # {} THEN exactMatches(name, fields)
    ELSE synonymMatches(name, fields)

\* unmapped is every name that has no exact match
unmappedWithoutExactMatch(name, fields) == exactMatches(name, fields) = {}

\* (3) no match
unmapped(name, fields) == candidates(name, fields) = {}

createSmartFieldMapping(templateFieldNames, supertag) ==
    LET fields == supertag.fields
        names == {templateFieldNames[i] : i \in DOMAIN templateFieldNames}
        mapped == {name \in names : candidates(name, fields) # {}}
        choices == {choice \in [mapped -> DOMAIN fields] :
                       \A name \in mapped : choice[name] \in candidates(name, fields)}
        unmappedFields ==
            SelectSeq(templateFieldNames, LAMBDA name : unmapped(name, fields))
    IN  {[fieldMap |-> {<<name, fields[choice[name]].name>> : name \in mapped},
          unmappedFields |-> unmappedFields,
          isComplete |-> unmappedFields = <<>>] : choice \in choices}

\* a record of fields is the set of its <<key, value>> entries
keysOf(entries) == {entry[1] : entry \in entries}
valueAt(entries, key) == (CHOOSE entry \in entries : entry[1] = key)[2]

\* applying the mapping with the keys that the fieldMap lacks kept as they are
applySmartFieldMappingKeepingUnmapped(fields, mapping) ==
    {{<<IF entry[1] \in keysOf(mapping.fieldMap)
        THEN valueAt(mapping.fieldMap, entry[1]) ELSE entry[1],
        entry[2]>> : entry \in fields}}

\* each present key is renamed per fieldMap, keys absent from fieldMap are
\* dropped; which value a name gets that several present keys are mapped to
\* is left open: applySmartFieldMapping is the set of the records allowed
applySmartFieldMapping(fields, mapping) ==
    LET present == keysOf(fields) \cap keysOf(mapping.fieldMap)
        targets == {valueAt(mapping.fieldMap, key) : key \in present}
        sources(target) ==
            {key \in present : valueAt(mapping.fieldMap, key) = target}
        choices == {choice \in [targets -> present] :
                       \A target \in targets : choice[target] \in sources(target)}
    IN  {{<<target, valueAt(fields, choice[target])>> : target \in targets} :
            choice \in choices}

(***************************************************************************)
(* The schema cache (schema-cache.ts), after its specification.  The file  *)
(* is [state, mtime, content]: missing, malformed or valid, its            *)
(* modification time, and the names of the supertags its JSON holds.  The  *)
(* cache is [loaded, supertags, lastMtime, read, loadedOnce]: the snapshot *)
(* in memory, the modification time last observed, whether the last        *)
(* lookup read the file, and whether a load ever succeeded.                *)
(***************************************************************************)
NoFile == [state |-> "missing", mtime |-> 0, content |-> {}]

NotLoaded ==
    [loaded |-> FALSE, supertags |-> {}, lastMtime |-> None, read |-> FALSE,
     loadedOnce |-> FALSE]

\* loading with the snapshot kept when the JSON is malformed
loadSchemasKeepingSnapshot(schemaFile, memory) ==
    IF schemaFile.state = "valid"
    THEN [loaded |-> TRUE, supertags |-> schemaFile.content,
          lastMtime |-> Some(schemaFile.mtime), read |-> TRUE, loadedOnce |-> TRUE]
    ELSE [memory EXCEPT !.lastMtime = Some(schemaFile.mtime), !.read = TRUE]

\* the file is read and parsed; the snapshot is replaced, by nothing when the
\* JSON is malformed
loadSchemas(schemaFile, memory) ==
    IF schemaFile.state = "valid"
    THEN [loaded |-> TRUE, supertags |-> schemaFile.content,
          lastMtime |-> Some(schemaFile.mtime), read |-> TRUE, loadedOnce |-> TRUE]
    ELSE [loaded |-> FALSE, supertags |-> {},
          lastMtime |-> Some(schemaFile.mtime), read |-> TRUE,
          loadedOnce |-> memory.loadedOnce]

\* the check that loads the file once and never looks at it again
refreshIfNeededOnce(schemaFile, memory) ==
    IF memory.loaded THEN [memory EXCEPT !.read = FALSE]
    ELSE IF schemaFile.state = "missing" THEN [memory EXCEPT !.read = FALSE]
    ELSE loadSchemas(schemaFile, memory)

\* the check before each lookup: a missing file leaves the cache not loaded;
\* the file is loaded when its modification time is not the last observed
refreshIfNeeded(schemaFile, memory) ==
    IF schemaFile.state = "missing"
    THEN [NotLoaded EXCEPT !.loadedOnce = memory.loadedOnce]
    ELSE IF memory.lastMtime = Some(schemaFile.mtime)
    THEN [memory EXCEPT !.read = FALSE]
    ELSE loadSchemas(schemaFile, memory)

\* the lookups on the memory, null being no name
getSupertag(memory, tagName) ==
    IF memory.loaded /\ tagName \in memory.supertags THEN {tagName} ELSE {}

getAllSupertags(memory) == IF memory.loaded THEN memory.supertags ELSE {}

(***************************************************************************)
(* cli.ts: runCLI.  What execa did is the outcome: it returned [stdout,    *)
(* stderr, exitCode], or it threw an error [timedOut, code, message].      *)
(* stdout is [text, parsed]: its text, and what JSON.parse and             *)
(* CLIResponseSchema.parse make of it: of kind "none" when it is no JSON,  *)
(* "other" when it is JSON that is no response, or the response.  A text   *)
(* is a sequence of its parts, empty for the empty string.                 *)
(***************************************************************************)
DefaultCliTimeout == "10000"

\* options.timeout || DEFAULT_TIMEOUT
cliTimeout(options) ==
    IF options.timeout \in {"undefined", "0"} THEN DefaultCliTimeout
    ELSE options.timeout

failure(error) == [settled |-> "resolved", success |-> FALSE, error |-> error]

\* runCLI with the error of a non-zero exit taken from stderr alone
runCLIWithStderrOnly(outcome, options) ==
    IF outcome.kind = "returned"
    THEN IF outcome.stdout.text # <<>> /\ outcome.stdout.parsed.kind = "response"
         THEN [settled |-> "resolved", success |-> outcome.stdout.parsed.success,
               error |-> outcome.stdout.parsed.error]
         ELSE IF outcome.exitCode # "0" THEN failure(outcome.stderr)
         ELSE failure(<<"No valid response from CLI">>)
    ELSE failure(<<"Unknown error occurred">>)

runCLI(outcome, options) ==
    IF outcome.kind = "returned"
    THEN IF outcome.stdout.text # <<>> /\ outcome.stdout.parsed.kind = "response"
         THEN [settled |-> "resolved", success |-> outcome.stdout.parsed.success,
               error |-> outcome.stdout.parsed.error]
         ELSE IF outcome.exitCode # "0"
         THEN failure(IF outcome.stderr # <<>> THEN outcome.stderr
                      ELSE IF outcome.stdout.text # <<>> THEN outcome.stdout.text
                      ELSE <<"Command exited with code ", outcome.exitCode>>)
         ELSE failure(<<"No valid response from CLI">>)
    ELSE IF outcome.timedOut
         THEN failure(<<"Command timed out after ", cliTimeout(options), "ms">>)
    ELSE IF outcome.code = "ENOENT"
         THEN failure(<<"k CLI not found at ", "K_PATH",
                        ". Make sure kai-launcher is installed.">>)
    ELSE failure(IF outcome.message # <<>> THEN outcome.message
                 ELSE <<"Unknown error occurred">>)

(***************************************************************************)
(* ai/providers/raycast.ts: RaycastProvider.process.  The timer that       *)
(* setTimeout set is unset, armed, fired (its callback called              *)
(* controller.abort()) or cleared; the request is the promise of AI.ask,   *)
(* which is not given the controller's signal.                             *)
(***************************************************************************)
DEFAULT_TIMEOUT == 30000

\* options?.timeout ?? DEFAULT_TIMEOUT
timeoutOf(options) ==
    IF options.timeout = None THEN DEFAULT_TIMEOUT ELSE options.timeout[1]

\* clearTimeout(timeoutId)
clearTimeout(timeoutId) == IF timeoutId = "armed" THEN "cleared" ELSE timeoutId

\* the catch block: what process rejects with for the error caught
rejection(error) ==
    [settled |-> "rejected",
     error |-> IF error.name = "AbortError" THEN <<"Request timeout">>
               ELSE <<"Failed to process: ", error.message>>]

(***************************************************************************)
(* The filter pipeline as a state machine: a caller invokes truncate or    *)
(* applyFilters with arguments drawn from the explored sets, the call      *)
(* runs to completion (the code is synchronous), and the caller takes the  *)
(* result.  pc names the call whose result output holds.                   *)
(***************************************************************************)
NoInput == [op |-> "none"]
\* output has one field for each type of result, so that a field always
\* holds values of one type: text of a filter call, matches of
\* matchesDomainPattern, template of findMatchingTemplate, rendered of
\* renderTemplate, parts of parseFilterExpression, errors of
\* validateTemplate, allFields of collectInheritedFields, mapping of
\* createSmartFieldMapping, score of getSpecificity, applied of
\* applySmartFieldMapping, found of the schema cache's lookups (the names of
\* the supertags returned, none for null), envelope of runCLI and result of
\* RaycastProvider.process (how the promise settled, and with what)
NoOutput ==
    [text |-> <<>>, matches |-> FALSE, template |-> Undefined,
     rendered |-> [supertag |-> <<>>, fields |-> <<>>, content |-> None],
     parts |-> <<>>, errors |-> <<>>, allFields |-> <<>>,
     mapping |-> [fieldMap |-> {}, unmappedFields |-> <<>>, isComplete |-> TRUE],
     score |-> NegInfinity, applied |-> {}, found |-> {},
     envelope |-> [settled |-> "pending", success |-> FALSE, error |-> <<>>],
     result |-> [settled |-> "pending", error |-> <<>>]]

Init ==
    /\ pc = "idle"
    /\ input = NoInput
    /\ output = NoOutput
    /\ stack = <<>>
    /\ visited = {}
    /\ resolved = <<>>
    /\ file = NoFile
    /\ cache = NotLoaded
    /\ timer = "unset"
    /\ request = "none"

Return ==
    /\ pc \notin {"idle", "collecting"}
    /\ pc' = "idle"
    /\ input' = NoInput
    /\ output' = NoOutput
    /\ stack' = <<>>
    /\ visited' = {}
    /\ resolved' = <<>>
    /\ UNCHANGED env

str_Hello_World == <<"H", "e", "l", "l", "o", " ", "W", "o", "r", "l", "d">>
str_Hello_dots == <<"H", "e", "l", "l", "o", ".", ".", ".">>
str_invalid == <<"i", "n", "v", "a", "l", "i", "d">>

TruncateValues == Strings({"a", " "}, MaxTruncateLen) \cup {str_Hello_World}

\* the maxLength texts: every length around the values' lengths, a negative
\* one, one that is no number, and the parameter left out
TruncateArgs ==
    {<<numberToString(n)>> : n \in (0 - 1)..(MaxTruncateLen + 3)}
        \cup {<<str_invalid>>, <<>>}

TruncateCall ==
    /\ pc = "idle"
    /\ \E value \in TruncateValues, args \in TruncateArgs :
         /\ input' = [op |-> "truncate", value |-> value, args |-> args]
         /\ output' = [NoOutput EXCEPT !.text = truncate(value, args)]
    /\ pc' = "truncate"
    /\ UNCHANGED <<walk, env>>

FilterValues == Strings({"a", " "}, MaxValueLen)

expr(name, argText) == name \o <<":">> \o argText

name_unknownfilter ==
    <<"u", "n", "k", "n", "o", "w", "n", "f", "i", "l", "t", "e", "r">>

FilterExprs ==
    {name_trim, name_upper, name_capitalize, name_wordcount,
     expr(name_truncate, <<"2">>), expr(name_default, <<"'", "b", " ", "'">>),
     expr(name_last, <<"1">>), expr(name_wrap, <<"[", ":", "]">>),
     expr(name_replace, <<"a", ":", " ", "c">>),
     name_unknownfilter, name___proto__, name_toString}

FilterChains == Strings(FilterExprs, MaxChain)

ApplyFiltersCall ==
    /\ pc = "idle"
    /\ \E value \in FilterValues, filterChain \in FilterChains :
         /\ input' = [op |-> "applyFilters", value |-> value,
                      filterChain |-> filterChain]
         /\ output' =
              [NoOutput EXCEPT !.text = applyFilters(value, filterChain)]
    /\ pc' = "applyFilters"
    /\ UNCHANGED <<walk, env>>

\* first and last alone, on values whose two ends differ and on the counts
\* explored for truncate
SliceValues == Strings({"a", "b"}, MaxValueLen)

FirstCall ==
    /\ pc = "idle"
    /\ \E value \in SliceValues, args \in TruncateArgs :
         /\ input' = [op |-> "first", value |-> value, args |-> args]
         /\ output' = [NoOutput EXCEPT !.text = first(value, args)]
    /\ pc' = "first"
    /\ UNCHANGED <<walk, env>>

LastCall ==
    /\ pc = "idle"
    /\ \E value \in SliceValues, args \in TruncateArgs :
         /\ input' = [op |-> "last", value |-> value, args |-> args]
         /\ output' = [NoOutput EXCEPT !.text = last(value, args)]
    /\ pc' = "last"
    /\ UNCHANGED <<walk, env>>

NextFirstLast == FirstCall \/ LastCall \/ Return

SpecFirstLast == Init /\ [][NextFirstLast]_vars

\* filter expressions over a letter, the separator, both quotes and a space
FilterExpressions == Strings({"a", ":", "'", "\"", " "}, MaxExprLen)

ParseFilterExpressionCall ==
    /\ pc = "idle"
    /\ \E filterExpr \in FilterExpressions :
         /\ input' = [op |-> "parseFilterExpression", expr |-> filterExpr]
         /\ output' = [NoOutput EXCEPT !.parts = parseFilterExpression(filterExpr)]
    /\ pc' = "parseFilterExpression"
    /\ UNCHANGED <<walk, env>>

NextFilters ==
    TruncateCall \/ ApplyFiltersCall \/ ParseFilterExpressionCall \/ Return

SpecFilters == Init /\ [][NextFilters]_vars

(***************************************************************************)
(* The matcher's explored inputs: URLs that parse and texts that do not,   *)
(* the patterns of the builtin templates and the edge patterns, and lists  *)
(* of templates with distinct ids.                                         *)
(***************************************************************************)
scheme_https == <<"h", "t", "t", "p", "s", ":", "/", "/">>
host_github == <<"g", "i", "t", "h", "u", "b", ".", "c", "o", "m">>
host_GitHub == <<"G", "i", "t", "H", "u", "b", ".", "c", "o", "m">>
host_GITHUB == <<"G", "I", "T", "H", "U", "B", ".", "C", "O", "M">>
host_example == <<"e", "x", "a", "m", "p", "l", "e", ".", "c", "o", "m">>
host_medium == <<"m", "e", "d", "i", "u", "m", ".", "c", "o", "m">>
host_youtube == <<"y", "o", "u", "t", "u", "b", "e", ".", "c", "o", "m">>
path_repo == <<"/", "o", "/", "r">>
path_issue == path_repo \o <<"/", "i", "s", "s", "u", "e", "s", "/", "1">>
path_watch == <<"/", "w", "a", "t", "c", "h">>

url_issue == scheme_https \o host_github \o path_issue
url_repo == scheme_https \o host_github \o path_repo
url_root == scheme_https \o host_github
url_www_root == scheme_https \o str_www_dot \o host_github \o <<"/">>
url_www_repo == scheme_https \o str_www_dot \o host_github \o path_repo
url_upper == scheme_https \o host_GitHub \o <<"/", "O", "/", "R">>
url_page == scheme_https \o host_example \o <<"/", "p", "a", "g", "e">>
url_medium == scheme_https \o <<"b", "l", "o", "g", ".">> \o host_medium \o <<"/", "a">>
url_watch == scheme_https \o host_youtube \o path_watch \o <<"?", "v", "=", "1">>
url_www_www == scheme_https \o str_www_dot \o str_www_dot \o host_github \o <<"/">>
url_mailto == <<"m", "a", "i", "l", "t", "o", ":", "a", "@", "b">>

url_not_a_url == <<"n", "o", "t", "-", "a", "-", "u", "r", "l">>
url_no_scheme == host_github \o path_repo
url_no_host == scheme_https
url_space_host == scheme_https \o <<"g", "i", "t", " ", "h", "u", "b">> \o path_repo
url_empty == <<>>

\* texts new URL accepts
ValidUrls ==
    {url_issue, url_repo, url_root, url_www_root, url_www_repo, url_upper,
     url_page, url_medium, url_watch, url_www_www, url_mailto}

\* texts new URL throws on
InvalidUrls ==
    {url_not_a_url, url_no_scheme, url_no_host, url_space_host, url_empty}

Urls == ValidUrls \cup InvalidUrls

pat_star == <<"*">>
pat_host == host_github
pat_repo == host_github \o <<"/", "*", "/", "*">>
pat_repo_upper == host_GITHUB \o <<"/", "*", "/", "*">>
pat_issue == host_github \o <<"/", "*", "/", "*", "/", "i", "s", "s", "u", "e", "s", "/", "*">>
pat_pull == host_github \o <<"/", "*", "/", "*", "/", "p", "u", "l", "l", "/", "*">>
pat_www_host == str_www_dot \o host_github
pat_www_repo == str_www_dot \o pat_repo
pat_medium == host_medium \o <<"/", "*">>
pat_sub_medium == <<"*", ".">> \o host_medium \o <<"/", "*">>
pat_articles == host_example \o <<"/", "a", "r", "t", "i", "c", "l", "e", "s", "/", "*">>
pat_watch == host_youtube \o path_watch \o <<"*">>
pat_two_stars == <<"*", "*">>
pat_empty == <<>>

Patterns ==
    {pat_star, pat_host, pat_repo, pat_repo_upper, pat_issue, pat_pull,
     pat_www_host, pat_www_repo, pat_medium, pat_sub_medium, pat_articles,
     pat_watch, pat_two_stars, pat_empty}

Template(id, triggers) == [id |-> id, triggers |-> triggers]

Catalog ==
    {Template("generic", <<pat_star>>),
     Template("repo", <<pat_repo>>),
     Template("repo-upper", <<pat_repo_upper>>),
     Template("issue", <<pat_issue>>),
     Template("host", <<pat_host>>),
     Template("medium", <<pat_medium, pat_sub_medium>>),
     Template("star-articles", <<pat_star, pat_articles>>),
     Template("no-trigger", <<>>)}

TemplateLists ==
    {ts \in Strings(Catalog, MaxTemplates) :
        \A i, j \in 1..Len(ts) : i # j => ts[i].id # ts[j].id}

MatchesDomainPatternCall ==
    /\ pc = "idle"
    /\ \E url \in Urls, pattern \in Patterns :
         /\ input' = [op |-> "matchesDomainPattern", url |-> url,
                      pattern |-> pattern]
         /\ output' =
              [NoOutput EXCEPT !.matches = matchesDomainPattern(url, pattern)]
    /\ pc' = "matchesDomainPattern"
    /\ UNCHANGED <<walk, env>>

FindMatchingTemplateCall ==
    /\ pc = "idle"
    /\ \E url \in Urls, templates \in TemplateLists :
         /\ input' = [op |-> "findMatchingTemplate", url |-> url,
                      templates |-> templates]
         /\ output' =
              [NoOutput EXCEPT !.template = findMatchingTemplate(url, templates)]
    /\ pc' = "findMatchingTemplate"
    /\ UNCHANGED <<walk, env>>

NextMatcher == MatchesDomainPatternCall \/ FindMatchingTemplateCall \/ Return

SpecMatcher == Init /\ [][NextMatcher]_vars

\* getSpecificity alone, the closure of findMatchingTemplate that scores one
\* trigger pattern, on every pattern of at most MaxPatternLen characters
PatternStrings == Strings({"*", "/", "a", "."}, MaxPatternLen)

GetSpecificityCall ==
    /\ pc = "idle"
    /\ \E pattern \in PatternStrings :
         /\ input' = [op |-> "getSpecificity", pattern |-> pattern]
         /\ output' = [NoOutput EXCEPT !.score = getSpecificity(pattern)]
    /\ pc' = "getSpecificity"
    /\ UNCHANGED <<walk, env>>

NextSpecificity == GetSpecificityCall \/ Return

SpecSpecificity == Init /\ [][NextSpecificity]_vars

(***************************************************************************)
(* The renderer's explored inputs.                                         *)
(***************************************************************************)
name_title == <<"t", "i", "t", "l", "e">>
name_url == <<"u", "r", "l">>
name_domain == <<"d", "o", "m", "a", "i", "n">>
name_date == <<"d", "a", "t", "e">>
name_author == <<"a", "u", "t", "h", "o", "r">>
name_selection == <<"s", "e", "l", "e", "c", "t", "i", "o", "n">>
name_description == <<"d", "e", "s", "c", "r", "i", "p", "t", "i", "o", "n">>
name_a == <<"a">>
name_b == <<"b">>
str_supertag == <<"#", "a", "r", "t", "i", "c", "l", "e">>

openBraces == <<"{", "{">>
closeBraces == <<"}", "}">>
var(name) == openBraces \o name \o closeBraces
piped(name, filterText) ==
    openBraces \o name \o <<"|">> \o filterText \o closeBraces

expr_default_empty == expr(name_default, <<"'", "'">>)

\* the context createTemplateContext builds, for each author, selection,
\* reading time and key points
Context(author, selection, time, keypoints) ==
    << <<name_title, JsString(<<"T">>)>>,
       <<name_url, JsString(url_repo)>>,
       <<name_domain, JsString(host_github)>>,
       <<name_date, JsString(<<"2", "0", "2", "6">>)>>,
       <<name_author, author>>,
       <<name_selection, selection>>,
       <<name_readtime, time>>,
       <<name_keypoints, keypoints>> >>

Contexts ==
    {Context(author, selection, time, keypoints) :
        author \in {JsUndefined, JsString(<<>>), JsString(<<" ">>),
                    JsString(<<"A", "l">>)},
        selection \in {JsUndefined, JsString(<<" ", "q", " ">>)},
        time \in {JsUndefined, JsNumber(5)},
        keypoints \in {JsUndefined, JsArray(<<<<"p">>, <<"q">>>>)}}

\* field templates of the builtin templates, and ones that render blank
FieldTemplates ==
    {var(name_url),
     var(name_author),
     piped(name_author, expr_default_empty),
     <<" ">> \o piped(name_author, name_trim) \o <<" ">>,
     piped(name_readtime, expr_default_empty) \o <<" ", "m", "i", "n">>,
     piped(name_selection, expr(name_default, name_description)),
     piped(name_keypoints, name_join),
     piped(name_author, name___proto__),
     <<>>}

ContentTemplates == {None, Some(piped(name_selection, expr_default_empty))}

FieldNames == <<"URL", "Author", "Reading Time", "Points">>

ClipTemplates ==
    {[supertag |-> str_supertag, fields |-> fields, contentTemplate |-> content] :
        fields \in UNION {[{FieldNames[k] : k \in 1..n} -> FieldTemplates] :
                             n \in 1..MaxFields},
        content \in ContentTemplates}

RenderTemplateCall ==
    /\ pc = "idle"
    /\ \E template \in ClipTemplates, context \in Contexts :
         /\ input' = [op |-> "renderTemplate", template |-> template,
                      context |-> context]
         /\ output' =
              [NoOutput EXCEPT !.rendered = renderTemplate(template, context)]
    /\ pc' = "renderTemplate"
    /\ UNCHANGED <<walk, env>>

\* template strings over the characters of a placeholder, and contexts whose
\* variable a is absent, a text, a text that reads as a placeholder of a or
\* of b, or a list of key points; the templates name a only
\* placeholders whose filters take quoted arguments holding ":" or "|"
arg_quoted_pipe == <<"\"", "|", "\"">>
arg_quoted_colon_or_pipe == <<"\"", ":", " ", "o", "r", " ", "|", "\"">>
arg_quoted_colon == <<"'", ":", "'">>

\* {{a|wrap:"prefix":""}} and {{a|join:"separator"}}
wrapTemplate(prefix) ==
    piped(name_a, expr(name_wrap, <<"\"">> \o prefix \o <<"\"", ":", "\"", "\"">>))
joinTemplate(separator) ==
    piped(name_a, expr(name_join, <<"\"">> \o separator \o <<"\"">>))

\* quoted arguments with and without spaces at their ends
QuotedArguments == {<<"b", "y", " ">>, <<"b", "y">>, <<",", " ">>, <<",">>}

QuotedTemplates ==
    {wrapTemplate(argument) : argument \in QuotedArguments}
        \cup {joinTemplate(argument) : argument \in QuotedArguments} \cup
    {piped(name_a, expr(name_wrap, arg_quoted_pipe)),
     piped(name_a, expr(name_first, <<"1">>) \o <<"|">>
                       \o expr(name_wrap, arg_quoted_colon_or_pipe)),
     piped(name_a, expr(name_wrap, arg_quoted_colon)),
     piped(name_a, name_upper \o <<"|">> \o name_trim)}

TemplateStrings ==
    Strings({"{", "}", "a", " "}, MaxTemplateLen) \cup QuotedTemplates

StringContexts ==
    {<< <<name_a, a>>, <<name_b, JsString(<<"s">>)>> >> :
        a \in {JsUndefined, JsString(<<"x">>), JsString(var(name_a)),
               JsString(var(name_b)), JsArray(<<<<"p">>, <<"q">>>>)}}

RenderTemplateStringCall ==
    /\ pc = "idle"
    /\ \E template \in TemplateStrings, context \in StringContexts :
         /\ input' = [op |-> "renderTemplateString", templateString |-> template,
                      context |-> context]
         /\ output' =
              [NoOutput EXCEPT !.text = renderTemplateString(template, context)]
    /\ pc' = "renderTemplateString"
    /\ UNCHANGED <<walk, env>>

\* partial templates: each property absent, empty, blank or given
OptionalTexts == {None, Some(<<>>), Some(<<" ">>), Some(<<"t">>), Some(<<" ", "t">>)}

OptionalTriggers == {None, Some(<<>>), Some(<<pat_host>>), Some(<<pat_host, pat_star>>)}

OptionalFields ==
    {None, Some(<<>>), Some([fieldName \in {"URL"} |-> var(name_url)])}

PartialTemplates ==
    [id : OptionalTexts, name : OptionalTexts, triggers : OptionalTriggers,
     supertag : OptionalTexts, fields : OptionalFields]

ValidateTemplateCall ==
    /\ pc = "idle"
    /\ \E template \in PartialTemplates :
         /\ input' = [op |-> "validateTemplate", template |-> template]
         /\ output' = [NoOutput EXCEPT !.errors = validateTemplate(template)]
    /\ pc' = "validateTemplate"
    /\ UNCHANGED <<walk, env>>

NextRenderer ==
    \/ RenderTemplateStringCall
    \/ RenderTemplateCall
    \/ ValidateTemplateCall
    \/ Return

SpecRenderer == Init /\ [][NextRenderer]_vars

(***************************************************************************)
(* Field inheritance as a state machine: the call, the resolution of the   *)
(* next parent of the supertag on top of the stack, and the return of a    *)
(* supertag's fields to its caller.  The explored registries hold four     *)
(* supertags a, b, c, d whose extends lists form chains, diamonds, cycles  *)
(* and references to a supertag that is not in the registry.               *)
(***************************************************************************)
tagName == [a |-> "A", b |-> "B", c |-> "C", d |-> "D"]
uniqueName == [a |-> "OfA", b |-> "OfB", c |-> "OfC", d |-> "OfD"]

\* a field that only supertag id declares
ownField(id) ==
    [attributeId |-> <<id, "own">>, name |-> uniqueName[id],
     normalizedName |-> "of", dataType |-> "plain", targetSupertag |-> None]

\* the field Status as supertag id declares it
statusField(id) ==
    [attributeId |-> <<id, "status">>, name |-> "Status",
     normalizedName |-> "status", dataType |-> "options",
     targetSupertag |-> Some([id |-> "d", name |-> tagName["d"]])]

\* a second field of the name Status on the same supertag
secondStatusField(id) ==
    [attributeId |-> <<id, "status2">>, name |-> "Status",
     normalizedName |-> "status", dataType |-> "plain", targetSupertag |-> None]

CachedSupertag(id, fields, extends) ==
    [id |-> id, name |-> tagName[id], fields |-> fields, extends |-> extends]

\* extends lists of distinct ids taken from ids, of at most MaxParents ids
ExtendsLists(ids) ==
    {extends \in UNION {[1..n -> ids] : n \in 0..MaxParents} :
        \A i, j \in DOMAIN extends : i # j => extends[i] # extends[j]}

Registries ==
    {<<CachedSupertag("a", fieldsA, extendsA), CachedSupertag("b", fieldsB, extendsB),
       CachedSupertag("c", fieldsC, extendsC),
       CachedSupertag("d", <<statusField("d"), ownField("d")>>, extendsD)>> :
        fieldsA \in {<<ownField("a")>>, <<statusField("a"), ownField("a")>>,
                     <<statusField("a"), secondStatusField("a")>>},
        fieldsB \in {<<ownField("b")>>, <<statusField("b"), ownField("b")>>},
        fieldsC \in {<<ownField("c")>>, <<statusField("c"), ownField("c")>>},
        extendsA \in ExtendsLists({"b", "c", "d"}),
        extendsB \in {<<>>, <<"d">>, <<"a">>, <<"b">>, <<"c", "d">>},
        extendsC \in {<<>>, <<"d">>, <<"b">>},
        extendsD \in {<<>>, <<"a">>, <<"z">>}}

CollectInheritedFieldsCall ==
    /\ pc = "idle"
    /\ \E allSupertags \in Registries :
         LET supertag == allSupertags[1]
         IN  /\ input' = [op |-> "collectInheritedFields", supertag |-> supertag,
                          allSupertags |-> allSupertags]
             /\ stack' = <<enter(supertag, 0)>>
             /\ visited' = {supertag.id}
             /\ resolved' = <<supertag.id>>
    /\ output' = NoOutput
    /\ pc' = "collecting"
    /\ UNCHANGED env

\* one turn of the loop over supertag.extends up to the recursive call: a
\* parent that is not in the registry or was visited contributes nothing
ResolveParent ==
    /\ pc = "collecting"
    /\ LET top == stack[Len(stack)]
       IN  /\ top.next <= Len(top.supertag.extends)
           /\ LET parentId == top.supertag.extends[top.next]
                  found == withId(input.allSupertags, parentId)
              IN  IF found = <<>> \/ isVisited(parentId)
                  THEN /\ stack' = [stack EXCEPT ![Len(stack)].next = top.next + 1]
                       /\ UNCHANGED <<visited, resolved>>
                  ELSE /\ stack' = Append(stack, enter(found[1], top.depth + 1))
                       /\ visited' = visited \cup {parentId}
                       /\ resolved' = Append(resolved, parentId)
    /\ UNCHANGED <<pc, input, output, env>>

\* the return of allFields: to the caller, which adds the fields whose names
\* it has not seen, or as the result of the outermost call
ReturnFields ==
    /\ pc = "collecting"
    /\ LET top == stack[Len(stack)]
       IN  /\ top.next > Len(top.supertag.extends)
           /\ IF Len(stack) = 1
              THEN /\ output' = [NoOutput EXCEPT !.allFields = top.allFields]
                   /\ pc' = "collectInheritedFields"
                   /\ stack' = <<>>
              ELSE LET caller == stack[Len(stack) - 1]
                   IN  /\ stack' =
                            [SubSeq(stack, 1, Len(stack) - 1) EXCEPT
                                ![Len(stack) - 1] =
                                    [caller EXCEPT
                                        !.allFields = addParentFields(caller.allFields,
                                                                      top.allFields),
                                        !.next = caller.next + 1]]
                       /\ UNCHANGED <<pc, output>>
    /\ UNCHANGED <<input, visited, resolved, env>>

NextInheritance ==
    CollectInheritedFieldsCall \/ ResolveParent \/ ReturnFields \/ Return

SpecInheritance == Init /\ [][NextInheritance]_vars

\* the call runs on: a step that is possible is taken
SpecInheritanceFair ==
    SpecInheritance /\ WF_vars(ResolveParent) /\ WF_vars(ReturnFields)

(***************************************************************************)
(* The smart field mapper as a state machine: a call of                    *)
(* createSmartFieldMapping with template field names and a supertag's      *)
(* fields, and the return of one of the mappings allowed.                  *)
(***************************************************************************)
field_URL == <<"U", "R", "L">>
field_url == <<"u", "r", "l">>
field_Link == <<"L", "i", "n", "k">>
field_Source == <<"S", "o", "u", "r", "c", "e">>
field_Channel == <<"C", "h", "a", "n", "n", "e", "l">>
field_Author == <<"A", "u", "t", "h", "o", "r">>
field_Tags == <<"T", "a", "g", "s">>

TemplateFieldNames ==
    UNION {[1..n -> {field_URL, field_Channel, field_Author, field_Tags}] :
              n \in 0..MaxTemplateFields}

SchemaFields ==
    UNION {[1..n -> {[name |-> name] :
                        name \in {field_URL, field_url, field_Link, field_Source,
                                  field_Channel, field_Author}}] :
              n \in 0..MaxSchemaFields}

CreateSmartFieldMappingCall ==
    /\ pc = "idle"
    /\ \E templateFieldNames \in TemplateFieldNames, fields \in SchemaFields :
         LET supertag == [name |-> <<"v", "i", "d", "e", "o">>, fields |-> fields]
         IN  /\ input' = [op |-> "createSmartFieldMapping",
                          templateFieldNames |-> templateFieldNames,
                          supertag |-> supertag]
             /\ \E mapping \in createSmartFieldMapping(templateFieldNames, supertag) :
                  output' = [NoOutput EXCEPT !.mapping = mapping]
    /\ pc' = "createSmartFieldMapping"
    /\ UNCHANGED <<walk, env>>

\* rendered fields under template field names, and fieldMaps that rename,
\* keep, swap and merge them
RenderedFields ==
    {fields \in SUBSET ({field_URL, field_Channel, field_Tags} \X {<<"1">>, <<"2">>}) :
        \A e1, e2 \in fields : e1[1] = e2[1] => e1 = e2}

FieldMaps ==
    {fieldMap \in SUBSET ({field_URL, field_Channel, field_Author}
                              \X {field_Link, field_Author, field_URL}) :
        \A e1, e2 \in fieldMap : e1[1] = e2[1] => e1 = e2}

ApplySmartFieldMappingCall ==
    /\ pc = "idle"
    /\ \E fields \in RenderedFields, fieldMap \in FieldMaps :
         LET mapping == [fieldMap |-> fieldMap, unmappedFields |-> <<>>,
                         isComplete |-> TRUE]
         IN  /\ input' = [op |-> "applySmartFieldMapping", fields |-> fields,
                          mapping |-> mapping]
             /\ \E applied \in applySmartFieldMapping(fields, mapping) :
                  output' = [NoOutput EXCEPT !.applied = applied]
    /\ pc' = "applySmartFieldMapping"
    /\ UNCHANGED <<walk, env>>

NextMapper == CreateSmartFieldMappingCall \/ ApplySmartFieldMappingCall \/ Return

SpecMapper == Init /\ [][NextMapper]_vars

(***************************************************************************)
(* The schema cache as a state machine: the file is written or deleted by  *)
(* its owner at any time, each write with a later modification time, and   *)
(* each lookup checks the file and then answers from memory.               *)
(***************************************************************************)
TagNames == {"todo", "note"}

WriteFile ==
    /\ file.mtime < MaxMtime
    /\ \E state \in {"valid", "malformed"}, content \in SUBSET TagNames :
         /\ state = "malformed" => content = {}
         /\ file' = [state |-> state, mtime |-> file.mtime + 1, content |-> content]
    /\ UNCHANGED <<pc, input, output, walk, cache, timer, request>>

DeleteFile ==
    /\ file.state # "missing"
    /\ file' = [file EXCEPT !.state = "missing", !.content = {}]
    /\ UNCHANGED <<pc, input, output, walk, cache, timer, request>>

GetSupertagCall ==
    /\ pc = "idle"
    /\ \E name \in TagNames :
         /\ input' = [op |-> "getSupertag", tagName |-> name]
         /\ cache' = refreshIfNeeded(file, cache)
         /\ output' = [NoOutput EXCEPT !.found = getSupertag(cache', name)]
    /\ pc' = "getSupertag"
    /\ UNCHANGED <<walk, file, timer, request>>

GetAllSupertagsCall ==
    /\ pc = "idle"
    /\ input' = [op |-> "getAllSupertags"]
    /\ cache' = refreshIfNeeded(file, cache)
    /\ output' = [NoOutput EXCEPT !.found = getAllSupertags(cache')]
    /\ pc' = "getAllSupertags"
    /\ UNCHANGED <<walk, file, timer, request>>

NextCache ==
    WriteFile \/ DeleteFile \/ GetSupertagCall \/ GetAllSupertagsCall \/ Return

SpecCache == Init /\ [][NextCache]_vars

(***************************************************************************)
(* runCLI as a state machine: a call, the subprocess ending in one of the  *)
(* outcomes, and the promise settled.                                      *)
(***************************************************************************)
\* what stdout parses to: a response has success and error, error empty
\* when the response has none
Parsed(kind, success, error) == [kind |-> kind, success |-> success, error |-> error]

Stdouts ==
    {[text |-> <<>>, parsed |-> Parsed("none", FALSE, <<>>)],
     [text |-> <<"oops">>, parsed |-> Parsed("none", FALSE, <<>>)],
     [text |-> <<"[1]">>, parsed |-> Parsed("other", FALSE, <<>>)]}
        \cup {[text |-> <<"{...}">>, parsed |-> Parsed("response", success, error)] :
                 success \in BOOLEAN, error \in {<<>>, <<"not found">>}}

Outcomes ==
    {[kind |-> "returned", stdout |-> stdout, stderr |-> stderr, exitCode |-> exitCode] :
        stdout \in Stdouts, stderr \in {<<>>, <<"fatal">>},
        exitCode \in {"0", "1", "undefined"}}
        \cup {[kind |-> "thrown", timedOut |-> timedOut, code |-> code,
               message |-> message] :
                 timedOut \in BOOLEAN, code \in {"ENOENT", "EACCES"},
                 message \in {<<>>, <<"spawn failed">>}}

RunCLICall ==
    /\ pc = "idle"
    /\ \E outcome \in Outcomes, timeout \in {"undefined", "0", "5000"} :
         LET options == [timeout |-> timeout]
         IN  /\ input' = [op |-> "runCLI", outcome |-> outcome, options |-> options]
             /\ output' = [NoOutput EXCEPT !.envelope = runCLI(outcome, options)]
    /\ pc' = "runCLI"
    /\ UNCHANGED <<walk, env>>

NextCLI == RunCLICall \/ Return

SpecCLI == Init /\ [][NextCLI]_vars

(***************************************************************************)
(* RaycastProvider.process as a state machine: the call sets the timer and *)
(* awaits AI.ask; the timer fires when its time has elapsed; AI.ask        *)
(* fulfils or rejects when the AI service answers, if it ever does.        *)
(***************************************************************************)
ProcessCall ==
    /\ pc = "idle"
    /\ \E operation \in {"summarize", "extract-keypoints", "suggest-tags"},
          timeout \in {None, Some(0), Some(5000)} :
         input' = [op |-> "process", operation |-> operation,
                   timeout |-> timeoutOf([timeout |-> timeout])]
    /\ timer' = "armed"
    /\ request' = "pending"
    /\ pc' = "awaiting"
    /\ UNCHANGED <<output, walk, file, cache>>

\* the timer's callback: controller.abort(), which nothing listens to
TimerFires ==
    /\ timer = "armed"
    /\ timer' = "fired"
    /\ UNCHANGED <<pc, input, output, walk, file, cache, request>>

\* AI.ask fulfils: the timer is cleared and the response is parsed, or, when
\* it is no string, the error thrown is caught and wrapped
RequestFulfils ==
    /\ pc = "awaiting"
    /\ request = "pending"
    /\ request' = "fulfilled"
    /\ timer' = clearTimeout(timer)
    /\ \E isString \in BOOLEAN :
         output' = [NoOutput EXCEPT !.result =
                       IF isString THEN [settled |-> "resolved", error |-> <<>>]
                       ELSE rejection([name |-> "AIProviderError",
                                       message |-> "Unexpected response type"])]
    /\ pc' = "process"
    /\ UNCHANGED <<input, walk, file, cache>>

\* AI.ask rejects, with an error of any name: the catch block rejects
RequestRejects ==
    /\ pc = "awaiting"
    /\ request = "pending"
    /\ request' = "rejected"
    /\ \E name \in {"Error", "AbortError"}, message \in {"Rate limited", "Aborted"} :
         output' = [NoOutput EXCEPT !.result =
                       rejection([name |-> name, message |-> message])]
    /\ pc' = "process"
    /\ UNCHANGED <<input, walk, file, cache, timer>>

NextProvider ==
    ProcessCall \/ TimerFires \/ RequestFulfils \/ RequestRejects \/ Return

SpecProvider == Init /\ [][NextProvider]_vars

(***************************************************************************)
(* Claims about the template renderer.                                     *)
(***************************************************************************)
\* empty, or nothing but white space
whitespaceOnly(text) == \A i \in DOMAIN text : text[i] \in WhiteSpace

\* C1: the fields map renderTemplate returns holds a key only if the key is
\* a field name of the template and the field's rendered value is not blank
\* after trimming; a field whose rendered value trims to empty is omitted,
\* and no key maps to an empty or whitespace-only text
C1_BlankFieldsOmitted ==
    (pc = "renderTemplate" /\ output.rendered # RenderThrown) =>
        LET template == input.template
            fields == output.rendered.fields
            value(fieldName) ==
                renderTemplateString(template.fields[fieldName], input.context)
        IN  /\ \A key \in DOMAIN fields :
                 /\ key \in DOMAIN template.fields
                 /\ fields[key] = value(key)
                 /\ ~whitespaceOnly(fields[key])
            /\ \A fieldName \in DOMAIN template.fields :
                 whitespaceOnly(value(fieldName)) => fieldName \notin DOMAIN fields

\* a template with an Author field whose value renders blank, beside a URL
\* field that is kept
C1_Witness ==
    /\ pc = "renderTemplate"
    /\ "Author" \in DOMAIN input.template.fields
    /\ input.template.fields["Author"] = <<" ">> \o piped(name_author, name_trim) \o <<" ">>
    /\ renderTemplateString(input.template.fields["Author"], input.context) = <<" ", " ">>
    /\ DOMAIN output.rendered.fields = {"URL"}

\* the optional text is present and not blank
nonBlank(property) == property # None /\ ~whitespaceOnly(property[1])

\* the messages of the requirements that template violates
violations(template) ==
    (IF nonBlank(template.id) THEN {} ELSE {"Template ID is required"})
    \cup (IF nonBlank(template.name) THEN {} ELSE {"Template name is required"})
    \cup (IF template.triggers # None /\ template.triggers[1] # <<>>
          THEN {} ELSE {"At least one trigger pattern is required"})
    \cup (IF nonBlank(template.supertag) THEN {} ELSE {"Supertag is required"})
    \cup (IF template.fields # None /\ DOMAIN template.fields[1] # {}
          THEN {} ELSE {"At least one field mapping is required"})

\* C14: validateTemplate returns one error for each violated requirement
\* (id, name and supertag not blank, triggers and fields not empty), all
\* violations of a template together, and the empty list if and only if all
\* five requirements hold
C14_OneErrorPerViolation ==
    pc = "validateTemplate" =>
        LET errors == output.errors
            violated == violations(input.template)
        IN  /\ {errors[i] : i \in DOMAIN errors} = violated
            /\ Len(errors) = Cardinality(violated)
            /\ (errors = <<>>) <=>
                   /\ nonBlank(input.template.id)
                   /\ nonBlank(input.template.name)
                   /\ input.template.triggers # None
                   /\ input.template.triggers[1] # <<>>
                   /\ nonBlank(input.template.supertag)
                   /\ input.template.fields # None
                   /\ DOMAIN input.template.fields[1] # {}

\* a template that lacks its id and has no field: both errors are returned
C14_Witness ==
    /\ pc = "validateTemplate"
    /\ input.template.id = None
    /\ input.template.name = Some(<<"t">>)
    /\ input.template.fields = Some(<<>>)
    /\ output.errors = <<"Template ID is required",
                         "At least one field mapping is required">>

(***************************************************************************)
(* Claims about the domain pattern matcher.                                *)
(***************************************************************************)
\* the maximum score over the template's triggers
scoreOf(template) ==
    LET scores == {getSpecificity(template.triggers[k]) :
                      k \in 1..Len(template.triggers)}
    IN  IF scores = {} THEN NegInfinity
        ELSE CHOOSE m \in scores : \A n \in scores : n <= m

\* C2: findMatchingTemplate returns the first template, in the order of
\* descending template specificity with ties kept in input order, that has a
\* trigger matching the url, and undefined iff no trigger of any template
\* matches: the result matches, and every other matching template scores
\* less, or scores the same and stands later in the input.
C2_FirstByDescendingSpecificity ==
    pc = "findMatchingTemplate" =>
        LET url == input.url
            ts == input.templates
            matching == {i \in 1..Len(ts) : anyTriggerMatches(url, ts[i])}
        IN  IF matching = {} THEN output.template = Undefined
            ELSE \E i \in matching :
                    /\ output.template = ts[i]
                    /\ \A j \in matching \ {i} :
                         \/ scoreOf(ts[j]) < scoreOf(ts[i])
                         \/ scoreOf(ts[j]) = scoreOf(ts[i]) /\ i < j

\* the sort has moved two equally specific templates before the catch-all
\* and kept them in input order
C2_Witness ==
    /\ pc = "findMatchingTemplate"
    /\ input.url = url_repo
    /\ input.templates = <<Template("generic", <<pat_star>>),
                           Template("repo-upper", <<pat_repo_upper>>),
                           Template("repo", <<pat_repo>>)>>
    /\ output.template.id = "repo-upper"

\* C3: the catch-all is returned only when no more specific trigger matches:
\* if the returned template matches the url through its "*" trigger alone,
\* no template of the list has a trigger other than "*" that matches the url.
C3_CatchAllOnlyAsFallback ==
    (/\ pc = "findMatchingTemplate"
     /\ output.template # Undefined
     /\ \A k \in 1..Len(output.template.triggers) :
          matchesDomainPattern(input.url, output.template.triggers[k])
              => output.template.triggers[k] = pat_star)
    => \A i \in 1..Len(input.templates) :
         \A k \in 1..Len(input.templates[i].triggers) :
            input.templates[i].triggers[k] # pat_star
                => ~matchesDomainPattern(input.url, input.templates[i].triggers[k])

\* C4: of two single-trigger templates that both match the url and score
\* differently, the lower-scoring one is never returned, and the
\* higher-scoring one is returned when the list holds just the two, whatever
\* their positions; "github.com/*/*/issues/*" scores above "github.com/*/*".
C4_HigherScoreWinsAnyPosition ==
    pc = "findMatchingTemplate" =>
        LET url == input.url
            ts == input.templates
            single == {i \in 1..Len(ts) :
                         /\ Len(ts[i].triggers) = 1
                         /\ matchesDomainPattern(url, ts[i].triggers[1])}
        IN  /\ \A i, j \in single :
                 getSpecificity(ts[i].triggers[1]) > getSpecificity(ts[j].triggers[1])
                    => /\ output.template # ts[j]
                       /\ (Len(ts) = 2 => output.template = ts[i])
            /\ getSpecificity(pat_issue) > getSpecificity(pat_repo)

\* the issue template, listed after the repository template, is returned
\* for an issue URL that both match
C4_Witness ==
    /\ pc = "findMatchingTemplate"
    /\ input.url = url_issue
    /\ input.templates = <<Template("repo", <<pat_repo>>),
                           Template("issue", <<pat_issue>>)>>
    /\ output.template.id = "issue"

hasCatchAll(templates) ==
    \E i \in 1..Len(templates) : \E k \in 1..Len(templates[i].triggers) :
        templates[i].triggers[k] = pat_star

\* C5: the pattern "*" matches every valid URL, so a list holding a template
\* with trigger "*" never yields undefined for a valid URL.
C5_CatchAllMatchesEveryValidUrl ==
    /\ (pc = "matchesDomainPattern" /\ input.url \in ValidUrls
            /\ input.pattern = pat_star)
          => output.matches = TRUE
    /\ (pc = "findMatchingTemplate" /\ input.url \in ValidUrls
            /\ hasCatchAll(input.templates))
          => output.template # Undefined

\* a URL with an empty hostname falls to the catch-all
C5_Witness ==
    /\ pc = "findMatchingTemplate"
    /\ input.url = url_mailto
    /\ input.templates = <<Template("repo", <<pat_repo>>),
                           Template("generic", <<pat_star>>)>>
    /\ output.template.id = "generic"

\* C6: a text that is no URL matches no pattern, "*" included, and
\* findMatchingTemplate returns undefined for it, whatever the list.
C6_InvalidUrlMatchesNothing ==
    /\ (pc = "matchesDomainPattern" /\ input.url \in InvalidUrls)
          => output.matches = FALSE
    /\ (pc = "findMatchingTemplate" /\ input.url \in InvalidUrls)
          => output.template = Undefined

\* a list with a catch-all has been searched for a text that is no URL
C6_Witness ==
    /\ pc = "findMatchingTemplate"
    /\ input.url = url_not_a_url
    /\ hasCatchAll(input.templates)
    /\ output.template = Undefined

\* C7: a leading "www." is stripped from the pattern as from the URL's
\* hostname: the pattern "www.H..." matches exactly the URLs "H..." matches.
C7_WwwStrippedFromPattern ==
    (pc = "matchesDomainPattern" /\ startsWith(input.pattern, str_www_dot))
        => output.matches = matchesDomainPattern(input.url, stripWww(input.pattern))

(***************************************************************************)
(* Claims about the filter pipeline.                                       *)
(***************************************************************************)
expr_wrap == expr(name_wrap, <<"[", ":", "]">>)
expr_last_1 == expr(name_last, <<"1">>)

\* C8: applyFilters runs the chain strictly left to right, each filter
\* receiving the previous filter's output: the empty chain returns the value,
\* a chain of one filter returns that filter's result, the result over
\* c1 ++ c2 is the result of c2 over the result of c1 for every split of the
\* chain, and ["trim", "upper"] yields the upper-cased trimmed value.
C8_ChainLeftToRight ==
    pc = "applyFilters" =>
        LET v == input.value
            c == input.filterChain
        IN  /\ (c = <<>> => output.text = v)
            /\ (Len(c) = 1 => output.text = applyFilter(v, c[1]))
            /\ \A k \in 0..Len(c) :
                 LET mid == applyFilters(v, SubSeq(c, 1, k))
                 IN  output.text = IF mid = Thrown THEN Thrown
                              ELSE applyFilters(mid, SubSeq(c, k + 1, Len(c)))
            /\ (c = <<name_trim, name_upper>> => output.text = toUpperCase(jsTrim(v)))

\* a chain of two filters that do not commute has run, first wrap, then last
C8_Witness ==
    /\ pc = "applyFilters"
    /\ input.value = <<"a">>
    /\ input.filterChain = <<expr_wrap, expr_last_1>>
    /\ output.text = <<"]">>

\* the chain without the expressions whose name is no filter of the registry
knownOnly(filterChain) ==
    SelectSeq(filterChain,
              LAMBDA e : Head(parseFilterExpression(e)) \in defaultFilters)

\* C9: a filter name that is no filter of the registry is skipped (the value
\* passes through that step unchanged and the rest of the chain still runs),
\* and applyFilters never throws, whatever names the chain contains.
C9_UnknownSkippedNeverThrows ==
    pc = "applyFilters" =>
        /\ output.text # Thrown
        /\ output.text = applyFilters(input.value, knownOnly(input.filterChain))

\* t is s without its leading and trailing white space
isTrimOf(t, s) ==
    \E i \in 1..(Len(s) + 1) : \E j \in (i - 1)..Len(s) :
        /\ t = SubSeq(s, i, j)
        /\ \A k \in 1..(i - 1) : s[k] \in WhiteSpace
        /\ \A k \in (j + 1)..Len(s) : s[k] \in WhiteSpace
        /\ (t # <<>> => t[1] \notin WhiteSpace /\ t[Len(t)] \notin WhiteSpace)
        /\ (t = <<>> => \A k \in 1..Len(s) : s[k] \in WhiteSpace)

\* the maxLength text of a truncate call whose argument is a plain numeral
maxOf(args) == CHOOSE n \in (0 - 1)..(MaxTruncateLen + 4) : args = <<numberToString(n)>>
isNumeral(args) == \E n \in (0 - 1)..(MaxTruncateLen + 4) : args = <<numberToString(n)>>

\* C10 as stated, for the lengths n >= 3 that have a first n-3 characters:
\* truncate(x, n) returns x unchanged when x.length <= n, and otherwise
\* exactly the first n-3 characters of x followed by "...".
C10_TruncateExactPrefix ==
    (pc = "truncate" /\ isNumeral(input.args) /\ maxOf(input.args) >= 3) =>
        LET x == input.value
            n == maxOf(input.args)
        IN  IF Len(x) <= n THEN output.text = x
            ELSE output.text = SubSeq(x, 1, n - 3) \o Ellipsis

\* C10 amended: truncate(x, n) returns x unchanged when x.length <= n or n
\* is no number; otherwise it returns x.slice(0, n-3) without its leading and
\* trailing white space, followed by "...", where x.slice(0, n-3) is the
\* first n-3 characters of x for n >= 3 and x without its last 3-n
\* characters for n < 3.
C10_TruncateTrimmedPrefix ==
    pc = "truncate" =>
        LET x == input.value
        IN  IF ~isNumeral(input.args) THEN output.text = x
            ELSE LET n == maxOf(input.args)
                     cut == IF n >= 3 THEN n - 3 ELSE Len(x) - (3 - n)
                 IN  IF Len(x) <= n THEN output.text = x
                     ELSE LET out == output.text
                          IN  /\ Len(out) >= 3
                              /\ SubSeq(out, Len(out) - 2, Len(out)) = Ellipsis
                              /\ isTrimOf(SubSeq(out, 1, Len(out) - 3),
                                          SubSeq(x, 1, cut))

\* truncate has cut "Hello World" to 8: the spec's example
C10_Witness ==
    /\ pc = "truncate"
    /\ input.value = str_Hello_World
    /\ input.args = <<<<"8">>>>
    /\ output.text = str_Hello_dots

\* C11: the result of truncate never exceeds the requested maximum: for
\* every value x and every maxLength that parses as an integer,
\* truncate(x, maxLength).length <= maxLength
C11_NeverLongerThanMax ==
    (pc = "truncate" /\ isNumeral(input.args)) =>
        Len(output.text) <= maxOf(input.args)

\* the quote character open before position i of s: "" outside quotes
RECURSIVE quoteBefore(_, _)
quoteBefore(s, i) ==
    IF i = 1 THEN ""
    ELSE LET q == quoteBefore(s, i - 1)
             c == s[i - 1]
         IN  IF q = "" THEN (IF c \in {"'", "\""} THEN c ELSE "")
             ELSE IF c = q THEN "" ELSE q

\* position i of s holds a quote that opens or closes a quoted section
isDelimiter(s, i) ==
    s[i] \in {"'", "\""} /\ (quoteBefore(s, i) = "" \/ quoteBefore(s, i) = s[i])

\* position i of s holds a ":" outside quotes
isSeparator(s, i) == s[i] = ":" /\ quoteBefore(s, i) = ""

\* the characters of s at positions from..to that delimit no quoted section
RECURSIVE unquoted(_, _, _)
unquoted(s, from, to) ==
    IF from > to THEN <<>>
    ELSE (IF isDelimiter(s, from) THEN <<>> ELSE <<s[from]>>)
             \o unquoted(s, from + 1, to)

\* the k-th position of s, counted from 1, that holds a separator; beyond
\* the last one, the position behind s
RECURSIVE separatorAt(_, _)
separatorAt(s, k) ==
    LET after == IF k = 1 THEN 0 ELSE separatorAt(s, k - 1)
        later == {i \in (after + 1)..Len(s) : isSeparator(s, i)}
    IN  IF later = {} THEN Len(s) + 1
        ELSE CHOOSE i \in later : \A j \in later : i <= j

\* C12: parseFilterExpression splits the text behind the name at every ":"
\* outside quotes and at no ":" inside a single- or double-quoted section;
\* the delimiting quotes are part of no argument, a quote of the other kind
\* inside a quoted section is kept, and an unterminated quote makes the rest
\* of the text accumulate into the current argument
C12_SplitsAtUnquotedColons ==
    (pc = "parseFilterExpression" /\ includes(input.expr, ":")) =>
        LET colonIndex == CHOOSE i \in 1..Len(input.expr) :
                              /\ input.expr[i] = ":"
                              /\ \A j \in 1..(i - 1) : input.expr[j] # ":"
            s == SubSeq(input.expr, colonIndex + 1, Len(input.expr))
            args == Tail(output.parts)
            separators == Cardinality({i \in 1..Len(s) : isSeparator(s, i)})
            segment(k) ==
                unquoted(s, (IF k = 1 THEN 0 ELSE separatorAt(s, k - 1)) + 1,
                         separatorAt(s, k) - 1)
            rest == segment(separators + 1)
        IN  /\ Len(output.parts) >= 1
            /\ Len(args) = separators + (IF rest = <<>> THEN 0 ELSE 1)
            /\ \A k \in 1..Len(args) : args[k] = jsTrim(segment(k))

\* a ":" inside quotes is kept in the argument, and the quotes are not
C12_Witness ==
    /\ pc = "parseFilterExpression"
    /\ input.expr = <<"a", ":", "'", ":", "'">>
    /\ output.parts = <<<<"a">>, <<":">>>>

\* the first position of text that holds a "|" outside quotes, 0 if none
firstUnquotedPipe(text) ==
    LET pipes == {i \in 1..Len(text) : text[i] = "|" /\ quoteBefore(text, i) = ""}
    IN  IF pipes = {} THEN 0 ELSE CHOOSE i \in pipes : \A j \in pipes : i <= j

\* text split at every "|" outside quotes, each part trimmed
RECURSIVE splitAtUnquotedPipes(_)
splitAtUnquotedPipes(text) ==
    LET i == firstUnquotedPipe(text)
    IN  IF i = 0 THEN <<jsTrim(text)>>
        ELSE <<jsTrim(SubSeq(text, 1, i - 1))>>
                 \o splitAtUnquotedPipes(SubSeq(text, i + 1, Len(text)))

\* template is one placeholder and nothing else
isPlaceholder(template) ==
    /\ Len(template) >= 5
    /\ SubSeq(template, 1, 2) = openBraces
    /\ SubSeq(template, Len(template) - 1, Len(template)) = closeBraces
    /\ \A i \in 3..(Len(template) - 2) : template[i] # "}"

\* C13: inside a placeholder a "|" within a quoted filter argument is part
\* of that argument and starts no new filter: the placeholder renders as the
\* variable's value with the filters between the "|" outside quotes applied
\* in order, each with its whole quoted argument
C13_QuotedPipeIsArgument ==
    (pc = "renderTemplateString" /\ isPlaceholder(input.templateString)) =>
        LET template == input.templateString
            parts == splitAtUnquotedPipes(SubSeq(template, 3, Len(template) - 2))
            value == getContextValue(input.context, Head(parts))
        IN  output.text = applyFilters(value, Tail(parts))

(***************************************************************************)
(* Claims about field inheritance.                                         *)
(***************************************************************************)
elements(seq) == {seq[i] : i \in DOMAIN seq}

\* the supertag of the registry that has this id, and the one of this name
supertagOf(allSupertags, id) == CHOOSE s \in elements(allSupertags) : s.id = id
supertagNamed(allSupertags, name) ==
    CHOOSE s \in elements(allSupertags) : s.name = name

\* the ids in the extends list of id that are supertags of the registry
parentsOf(allSupertags, id) ==
    {parentId \in elements(supertagOf(allSupertags, id).extends) :
        \E s \in elements(allSupertags) : s.id = parentId}

\* the extends paths of exactly hops hops that start at from, pass through
\* no supertag twice and through no supertag of avoid
RECURSIVE Paths(_, _, _, _)
Paths(allSupertags, from, hops, avoid) ==
    IF hops = 0 THEN {<<from>>}
    ELSE UNION {{Append(path, parentId) :
                    parentId \in parentsOf(allSupertags, path[Len(path)])
                                     \ (elements(path) \cup avoid)} :
                path \in Paths(allSupertags, from, hops - 1, avoid)}

\* id is reached from the supertag from by an extends path of hops hops
reachedIn(allSupertags, from, id, hops, avoid) ==
    \E path \in Paths(allSupertags, from, hops, avoid) : path[Len(path)] = id

\* some supertag of the registry other than the one of this id declares name
declaredElsewhere(allSupertags, id, name) ==
    \E s \in elements(allSupertags) :
        s.id # id /\ \E field \in elements(s.fields) : field.name = name

\* entry is field with nothing but origin and depth added
carries(entry, field) ==
    /\ entry.attributeId = field.attributeId
    /\ entry.name = field.name
    /\ entry.normalizedName = field.normalizedName
    /\ entry.dataType = field.dataType
    /\ entry.targetSupertag = field.targetSupertag

ancestors(allSupertags, from) ==
    {s \in elements(allSupertags) :
        \E hops \in 0..(Len(allSupertags) - 1) :
            reachedIn(allSupertags, from, s.id, hops, {})}

\* the smallest number of hops of an extends path from the supertag from to id
minHops(allSupertags, from, id) ==
    CHOOSE hops \in 0..(Len(allSupertags) - 1) :
        /\ reachedIn(allSupertags, from, id, hops, {})
        /\ \A fewer \in 0..(hops - 1) : ~reachedIn(allSupertags, from, id, fewer, {})

declares(s, name) == \E field \in elements(s.fields) : field.name = name

\* C16 as stated: in every extends graph, when supertags at different
\* numbers of hops from the requesting supertag declare the same field name,
\* the entry kept is the one declared at the smallest number of hops
C16_ClosestDeclarationKept ==
    pc = "collectInheritedFields" =>
        LET own == input.supertag
            all == input.allSupertags
        IN  \A entry \in elements(output.allFields) :
                \A s \in ancestors(all, own.id) :
                    declares(s, entry.name) =>
                        minHops(all, own.id,
                                supertagNamed(all, entry.originTagName).id)
                            <= minHops(all, own.id, s.id)

\* C16 amended: a field re-declared at own level or at a closer ancestor
\* shadows the farther one along an extends path: the entry kept for a field
\* name is declared by a supertag reached from the requesting supertag by an
\* extends path, of as many hops as the entry's depth, on which no closer
\* supertag declares that name
C16_ClosestOnPathKept ==
    pc = "collectInheritedFields" =>
        LET own == input.supertag
            all == input.allSupertags
        IN  \A entry \in elements(output.allFields) :
                LET origin == supertagNamed(all, entry.originTagName)
                IN  /\ \E field \in elements(origin.fields) :
                         entry.attributeId = field.attributeId
                    /\ \E path \in Paths(all, own.id, entry.depth, {}) :
                         /\ path[Len(path)] = origin.id
                         /\ \A i \in 1..(Len(path) - 1) :
                              ~declares(supertagOf(all, path[i]), entry.name)

\* b and its parent d both declare Status, a does not: the entry kept is b's
C16_Witness ==
    /\ pc = "collectInheritedFields"
    /\ input.supertag.extends = <<"b">>
    /\ ~declares(input.supertag, "Status")
    /\ supertagOf(input.allSupertags, "b").extends = <<"d">>
    /\ declares(supertagOf(input.allSupertags, "b"), "Status")
    /\ \E entry \in elements(output.allFields) :
         /\ entry.name = "Status"
         /\ entry.attributeId = <<"b", "status">>
         /\ entry.depth = 1

\* no supertag occurs twice in the sequence of ids
eachOnce(ids) == \A i, j \in DOMAIN ids : i # j => ids[i] # ids[j]

\* C17: field inheritance resolution terminates for every extends graph,
\* cyclic ones and diamonds included, and each supertag contributes its
\* fields at most once: a supertag is resolved once, a supertag met again
\* through any path is not resolved again, and no field of a supertag
\* appears twice in the result
C17_TerminatesEachSupertagOnce ==
    /\ (pc = "collecting") ~> (pc = "collectInheritedFields")
    /\ [](/\ eachOnce(resolved)
          /\ eachOnce([i \in DOMAIN stack |-> stack[i].supertag.id])
          /\ eachOnce([i \in DOMAIN output.allFields |->
                          output.allFields[i].attributeId]))

\* the call has returned for two cycles through the requesting supertag (a
\* extends b and c, b extends a, c extends d, d extends a): each of the four
\* supertags was resolved once
C17_Witness ==
    /\ pc = "collectInheritedFields"
    /\ input.supertag.extends = <<"b", "c">>
    /\ supertagOf(input.allSupertags, "b").extends = <<"a">>
    /\ supertagOf(input.allSupertags, "c").extends = <<"d">>
    /\ supertagOf(input.allSupertags, "d").extends = <<"a">>
    /\ resolved = <<"a", "b", "c", "d">>

\* the supertags that an extends path from the parent reaches without
\* passing through the requesting supertag
branch(allSupertags, requesting, parentId) ==
    {s \in elements(allSupertags) :
        \E hops \in 0..(Len(allSupertags) - 2) :
            reachedIn(allSupertags, parentId, s.id, hops, {requesting})}

\* the parent at this position of extends provides the name, directly or
\* through its ancestors
provides(allSupertags, own, position, name) ==
    /\ own.extends[position] \in parentsOf(allSupertags, own.id) \ {own.id}
    /\ \E s \in branch(allSupertags, own.id, own.extends[position]) :
         declares(s, name)

isPrefix(shorter, longer) ==
    /\ Len(shorter) <= Len(longer)
    /\ \A i \in DOMAIN shorter : shorter[i] = longer[i]

\* C18: deduplication by field name is first-write-wins in visiting order:
\* the own fields, one entry for each name in the order of declaration, come
\* first in the effective list; when parents listed in extends provide,
\* directly or through their ancestors, a field name the requesting supertag
\* does not declare, the entry kept is one reached through the parent listed
\* earliest; and the list of a supertag being resolved only grows at its
\* end, an entry once added is never replaced
C18_FirstWriteWinsInVisitingOrder ==
    /\ [](pc = "collectInheritedFields" =>
            LET own == input.supertag
                all == input.allSupertags
                allFields == output.allFields
                ownNames == {own.fields[k].name : k \in DOMAIN own.fields}
            IN  /\ Len(allFields) >= Cardinality(ownNames)
                /\ \A i \in DOMAIN allFields :
                     IF i <= Cardinality(ownNames)
                     THEN /\ allFields[i].depth = 0
                          /\ allFields[i].originTagName = own.name
                          /\ \E k \in DOMAIN own.fields :
                               /\ carries(allFields[i], own.fields[k])
                               /\ Cardinality({own.fields[j].name : j \in 1..k}) = i
                               /\ \A j \in 1..(k - 1) :
                                    own.fields[j].name # own.fields[k].name
                     ELSE /\ allFields[i].depth > 0
                          /\ allFields[i].name \notin ownNames
                          /\ \E position \in DOMAIN own.extends :
                               /\ provides(all, own, position, allFields[i].name)
                               /\ \A earlier \in 1..(position - 1) :
                                    ~provides(all, own, earlier, allFields[i].name)
                               /\ LET origin ==
                                          supertagNamed(all, allFields[i].originTagName)
                                  IN  /\ \E field \in elements(origin.fields) :
                                           carries(allFields[i], field)
                                      /\ reachedIn(all, own.extends[position],
                                                   origin.id,
                                                   allFields[i].depth - 1, {own.id}))
    /\ [][\A i \in DOMAIN stack :
            (i \in DOMAIN stack' /\ stack'[i].supertag.id = stack[i].supertag.id) =>
                isPrefix(stack[i].allFields, stack'[i].allFields)]_vars

\* a extends c and then b, both declare Status and a does not: the entry
\* kept is c's, which follows a's own field
C18_Witness ==
    /\ pc = "collectInheritedFields"
    /\ input.supertag.extends = <<"c", "b">>
    /\ ~declares(input.supertag, "Status")
    /\ declares(supertagOf(input.allSupertags, "b"), "Status")
    /\ declares(supertagOf(input.allSupertags, "c"), "Status")
    /\ Len(output.allFields) >= 2
    /\ output.allFields[1].attributeId = <<"a", "own">>
    /\ output.allFields[2].attributeId = <<"c", "status">>

(***************************************************************************)
(* Claims about the smart field mapper.                                    *)
(***************************************************************************)
\* the schema field names that the fieldMap gives for the template field name
valuesOf(fieldMap, name) == {entry[2] : entry \in {e \in fieldMap : e[1] = name}}

\* the names of the schema fields of the supertag
schemaNames(supertag) == {supertag.fields[i].name : i \in DOMAIN supertag.fields}

sameIgnoringCase(a, b) == toLowerCase(a) = toLowerCase(b)

\* a and b belong, ignoring case, to one synonym group
synonyms(a, b) ==
    \E group \in SynonymGroups : toLowerCase(a) \in group /\ toLowerCase(b) \in group

\* C19: createSmartFieldMapping resolves each template field name ignoring
\* case, exact match first: when the schema has a field whose name equals
\* the template field name ignoring case, the name maps to such a field, in
\* the schema's spelling, even when a synonym field is present; only
\* otherwise does it map to a schema field of the same synonym group
C19_ExactMatchBeforeSynonyms ==
    pc = "createSmartFieldMapping" =>
        \A name \in elements(input.templateFieldNames) :
            LET schema == schemaNames(input.supertag)
                exact == {field \in schema : sameIgnoringCase(field, name)}
                synonym == {field \in schema : synonyms(field, name)}
                values == valuesOf(output.mapping.fieldMap, name)
            IN  IF exact # {}
                THEN Cardinality(values) = 1 /\ values \subseteq exact
                ELSE IF synonym # {}
                THEN Cardinality(values) = 1 /\ values \subseteq synonym
                ELSE values = {}

\* URL with a schema of Link, a synonym, and then url maps to url
C19_Witness ==
    /\ pc = "createSmartFieldMapping"
    /\ input.templateFieldNames = <<field_URL>>
    /\ input.supertag.fields = <<[name |-> field_Link], [name |-> field_url]>>
    /\ output.mapping.fieldMap = {<<field_URL, field_url>>}

\* C20: the FieldMapping partitions the template field names: each name is
\* either a key of fieldMap, mapped to the name of a field of the supertag,
\* or an element of unmappedFields, never both and never neither, and
\* isComplete is true if and only if unmappedFields is empty
C20_MappingPartitionsTemplateFields ==
    pc = "createSmartFieldMapping" =>
        LET mapping == output.mapping
            names == elements(input.templateFieldNames)
        IN  /\ \A name \in names :
                 LET values == valuesOf(mapping.fieldMap, name)
                 IN  /\ values \subseteq schemaNames(input.supertag)
                     /\ Cardinality(values) <= 1
                     /\ values # {} <=> name \notin elements(mapping.unmappedFields)
            /\ {entry[1] : entry \in mapping.fieldMap} \subseteq names
            /\ elements(mapping.unmappedFields) \subseteq names
            /\ mapping.isComplete <=> mapping.unmappedFields = <<>>

\* URL is mapped to Link by synonym and Tags is unmapped: not complete
C20_Witness ==
    /\ pc = "createSmartFieldMapping"
    /\ input.templateFieldNames = <<field_URL, field_Tags>>
    /\ input.supertag.fields = <<[name |-> field_Link]>>
    /\ output.mapping.fieldMap = {<<field_URL, field_Link>>}
    /\ output.mapping.unmappedFields = <<field_Tags>>
    /\ ~output.mapping.isComplete

(***************************************************************************)
(* Claims about the specificity score.                                     *)
(***************************************************************************)
\* the '/'-delimited segments of the pattern, each as <<first, last>>
\* positions, an empty segment having last = first - 1
segmentsOf(pattern) ==
    {<<i, j>> \in (1..(Len(pattern) + 1)) \X (0..Len(pattern)) :
        /\ j >= i - 1
        /\ \A k \in i..j : pattern[k] # "/"
        /\ i = 1 \/ pattern[i - 1] = "/"
        /\ j = Len(pattern) \/ pattern[j + 1] = "/"}

\* C24: the specificity score of a pattern is the number of its characters
\* other than '*' times 10 plus the number of its '/'-delimited segments,
\* except that the pattern "*" scores 0; every other pattern, the empty one
\* and those made of several '*' included, scores more than 0
C24_SpecificityScore ==
    pc = "getSpecificity" =>
        LET pattern == input.pattern
            nonWildcard == Cardinality({i \in DOMAIN pattern : pattern[i] # "*"})
        IN  /\ pattern = <<"*">> => output.score = 0
            /\ pattern # <<"*">> =>
                 /\ output.score = nonWildcard * 10 + Cardinality(segmentsOf(pattern))
                 /\ output.score > 0

\* the catch-all scores 0, and so has been scored, like "**" and "a/*"
C24_Witness ==
    /\ pc = "getSpecificity"
    /\ input.pattern = <<"*">>
    /\ output.score = 0

(***************************************************************************)
(* Claims about first and last.                                            *)
(***************************************************************************)
\* the count is given, as a decimal string of digits only
isDecimal(args) ==
    /\ Len(args) = 1
    /\ args[1] # <<>>
    /\ \A i \in DOMAIN args[1] : isDigit(args[1][i])

\* C25: for every value v and every integer n >= 0 given as a decimal
\* string, first(v, n) is the leading min(n, |v|) characters of v and
\* last(v, n) is the trailing min(n, |v|) characters of v; for an argument
\* that does not parse as an integer both return v unchanged
C25_FirstLastOfMinCharacters ==
    pc \in {"first", "last"} =>
        LET v == input.value
            args == input.args
        IN  /\ isDecimal(args) =>
                 LET n == digitPrefix(args[1], 0)
                     kept == IF n < Len(v) THEN n ELSE Len(v)
                 IN  output.text =
                         IF pc = "first" THEN SubSeq(v, 1, kept)
                         ELSE SubSeq(v, Len(v) - kept + 1, Len(v))
            /\ (Len(args) = 1 /\ parseInt(args[1]).nan) => output.text = v

(***************************************************************************)
(* Claims about quoted filter arguments in templates.                      *)
(***************************************************************************)
\* C26: a quoted filter argument written in a template reaches the filter
\* exactly as written between the quotes, spaces at its ends included:
\* {{a|wrap:"by ":""}} renders as "by " followed by the value of a, and
\* {{a|join:", "}} joins the elements of a with comma-space
C26_QuotedArgumentAsWritten ==
    pc = "renderTemplateString" =>
        \A argument \in QuotedArguments :
            LET value == getContextValue(input.context, name_a)
            IN  /\ input.templateString = wrapTemplate(argument) =>
                     output.text = wrap(value, <<argument, <<>>>>)
                /\ input.templateString = joinTemplate(argument) =>
                     output.text = join(value, <<argument>>)

(***************************************************************************)
(* Claims about the single pass of renderTemplateString.                   *)
(***************************************************************************)
\* the position where the placeholder that starts at position i of the
\* text ends, 0 when none starts there: "{{", an expression of one or more
\* characters other than "}", "}}"
placeholderEnd(text, i) ==
    IF /\ i + 1 <= Len(text)
       /\ text[i] = "{" /\ text[i + 1] = "{"
       /\ \E k \in (i + 3)..(Len(text) - 1) :
            /\ text[k] = "}" /\ text[k + 1] = "}"
            /\ \A before \in (i + 2)..(k - 1) : text[before] # "}"
    THEN 1 + CHOOSE k \in (i + 3)..(Len(text) - 1) :
                 /\ text[k] = "}" /\ text[k + 1] = "}"
                 /\ \A before \in (i + 2)..(k - 1) : text[before] # "}"
    ELSE 0

\* the placeholders of the text in a pass from the left, from position i on
RECURSIVE placeholders(_, _)
placeholders(text, i) ==
    IF i > Len(text) THEN <<>>
    ELSE IF placeholderEnd(text, i) > 0
    THEN <<[from |-> i, to |-> placeholderEnd(text, i)]>>
             \o placeholders(text, placeholderEnd(text, i) + 1)
    ELSE placeholders(text, i + 1)

\* the text from position i on, with each of these placeholders replaced by
\* its value in the context
RECURSIVE substituted(_, _, _, _)
substituted(text, i, found, context) ==
    IF found = <<>> THEN SubSeq(text, i, Len(text))
    ELSE SubSeq(text, i, found[1].from - 1)
             \o renderVariable(SubSeq(text, found[1].from + 2, found[1].to - 2),
                               context)
             \o substituted(text, found[1].to + 1, Tail(found), context)

\* C28: renderTemplateString substitutes each placeholder once in one pass
\* from the left: the text outside placeholders is copied verbatim, and
\* placeholder syntax inside a substituted value is emitted literally and not
\* expanded again, so that a context value pulls no other context variable
\* (here b, whose value is "s") into the output
C28_SinglePassNoReexpansion ==
    pc = "renderTemplateString" =>
        LET template == input.templateString
        IN  /\ output.text =
                 substituted(template, 1, placeholders(template, 1), input.context)
            /\ \A i \in DOMAIN output.text : output.text[i] # "s"

\* a names b in its value: the placeholder of a is replaced by that value,
\* which stays as it is, after the space copied from the template
C28_Witness ==
    /\ pc = "renderTemplateString"
    /\ input.templateString = <<" ">> \o var(name_a)
    /\ lookup(input.context, name_a, JsUndefined) = JsString(var(name_b))
    /\ output.text = <<" ">> \o var(name_b)

(***************************************************************************)
(* Claims about the names of the effective field list.                     *)
(***************************************************************************)
\* C29: for every extends graph, diamonds, cycles and extends ids that name
\* no supertag included, the set of field names of the effective field list
\* of a supertag is the union of the own field names of the supertags
\* reachable from it through existing extends ids, and no field name occurs
\* twice in the list; an extends id with no supertag is skipped
C29_NamesOfReachableSupertags ==
    pc = "collectInheritedFields" =>
        LET allFields == output.allFields
            reachable == ancestors(input.allSupertags, input.supertag.id)
        IN  /\ {allFields[i].name : i \in DOMAIN allFields} =
                   UNION {{s.fields[k].name : k \in DOMAIN s.fields} : s \in reachable}
            /\ eachOnce([i \in DOMAIN allFields |-> allFields[i].name])

\* a diamond (a extends b and c, both extend d) whose top d extends z, which
\* is no supertag: d's own field is in the list and Status, which d, b and c
\* declare, is there once
C29_Witness ==
    /\ pc = "collectInheritedFields"
    /\ input.supertag.extends = <<"b", "c">>
    /\ supertagOf(input.allSupertags, "b").extends = <<"d">>
    /\ supertagOf(input.allSupertags, "c").extends = <<"d">>
    /\ supertagOf(input.allSupertags, "d").extends = <<"z">>
    /\ declares(supertagOf(input.allSupertags, "b"), "Status")
    /\ declares(supertagOf(input.allSupertags, "c"), "Status")
    /\ \E i \in DOMAIN output.allFields : output.allFields[i].name = uniqueName["d"]
    /\ Cardinality({i \in DOMAIN output.allFields :
                       output.allFields[i].name = "Status"}) = 1

(***************************************************************************)
(* Claims about applying a field mapping.                                  *)
(***************************************************************************)
\* the keys of the rendered fields that the fieldMap renames
mappedKeys(fields, fieldMap) == keysOf(fields) \cap keysOf(fieldMap)

\* C21 as stated: applySmartFieldMapping(fields, mapping) returns a record
\* that, for each key k present in fields and in mapping.fieldMap, has
\* fields[k] under the key mapping.fieldMap[k], and has no other keys
C21_EachMappedKeyRenamed ==
    pc = "applySmartFieldMapping" =>
        LET fields == input.fields
            fieldMap == input.mapping.fieldMap
        IN  /\ \A k \in mappedKeys(fields, fieldMap) :
                 <<valueAt(fieldMap, k), valueAt(fields, k)>> \in output.applied
            /\ keysOf(output.applied) =
                   {valueAt(fieldMap, k) : k \in mappedKeys(fields, fieldMap)}

\* C21 amended: the record returned has, for each key k present in fields
\* and in mapping.fieldMap, the key mapping.fieldMap[k], holding fields[k]
\* or, when several such keys are mapped to that name, the value of one of
\* them; it has one value for a key and no other keys: keys of fields
\* absent from fieldMap are dropped and a template key does not remain
\* unless it is itself a mapping target
C21_MappedKeysRenamedOthersDropped ==
    pc = "applySmartFieldMapping" =>
        LET fields == input.fields
            fieldMap == input.mapping.fieldMap
            mapped == mappedKeys(fields, fieldMap)
        IN  /\ keysOf(output.applied) = {valueAt(fieldMap, k) : k \in mapped}
            /\ \A e1, e2 \in output.applied : e1[1] = e2[1] => e1 = e2
            /\ \A entry \in output.applied :
                 \E k \in mapped :
                     valueAt(fieldMap, k) = entry[1] /\ valueAt(fields, k) = entry[2]
            /\ \A k \in mapped :
                 (\A other \in mapped :
                     valueAt(fieldMap, other) = valueAt(fieldMap, k) => other = k)
                     => <<valueAt(fieldMap, k), valueAt(fields, k)>> \in output.applied

\* URL is renamed to Link, Channel to Author, and Tags, which the fieldMap
\* lacks, is dropped
C21_Witness ==
    /\ pc = "applySmartFieldMapping"
    /\ input.fields = {<<field_URL, <<"1">>>>, <<field_Channel, <<"2">>>>,
                       <<field_Tags, <<"1">>>>}
    /\ input.mapping.fieldMap = {<<field_URL, field_Link>>,
                                 <<field_Channel, field_Author>>}
    /\ output.applied = {<<field_Link, <<"1">>>>, <<field_Author, <<"2">>>>}

(***************************************************************************)
(* Claims about the schema cache.                                          *)
(***************************************************************************)
\* this step is a lookup of the schema cache
isLookup == pc = "idle" /\ pc' \in {"getSupertag", "getAllSupertags"}

\* the names that the lookup made in this step asks for
asked == IF pc' = "getSupertag" THEN {input'.tagName} ELSE TagNames

\* C22: after any sequence of modifications of the schema file and lookups,
\* a lookup compares the file's modification time with the last observed
\* one and reads the file if and only if they differ, a repeated lookup with
\* the modification time unchanged being served from memory; the value
\* returned comes from the content of the file at its current modification
\* time, never from a snapshot taken at an older one
C22_ReloadsIffMtimeChanged ==
    [][isLookup =>
          /\ file.state # "missing" =>
                 (cache'.read <=> cache.lastMtime # Some(file.mtime))
          /\ file.state = "valid" =>
                 /\ output'.found = asked \cap file.content
                 /\ cache'.lastMtime = Some(file.mtime)]_vars

\* after a reload at a later modification time, a lookup with the time
\* unchanged was served from memory and returned a supertag of the file
C22_Witness ==
    /\ pc = "getSupertag"
    /\ file.state = "valid"
    /\ file.mtime >= 2
    /\ ~cache.read
    /\ cache.lastMtime = Some(file.mtime)
    /\ output.found = {input.tagName}

\* C23: when the schema file is missing or holds malformed JSON, every
\* lookup returns null or the empty list and does not throw, malformed JSON
\* being treated as a missing file, also when the file was loaded earlier
\* and became missing or malformed afterwards: the earlier snapshot is not
\* served
C23_MissingOrMalformedGivesNull ==
    [][(isLookup /\ file.state \in {"missing", "malformed"}) =>
          /\ output'.found = {}
          /\ ~cache'.loaded
          /\ cache'.supertags = {}]_vars

\* a lookup returned nothing from a malformed file after a load had
\* succeeded
C23_Witness ==
    /\ pc = "getAllSupertags"
    /\ file.state = "malformed"
    /\ cache.loadedOnce
    /\ cache.lastMtime = Some(file.mtime)
    /\ output.found = {}

(***************************************************************************)
(* Claims about runCLI.                                                    *)
(***************************************************************************)
\* stdout parsed as JSON that satisfies the response schema
isResponse(outcome) ==
    /\ outcome.kind = "returned"
    /\ outcome.stdout.text # <<>>
    /\ outcome.stdout.parsed.kind = "response"

\* C27: runCLI never rejects: for every outcome of the subprocess (JSON on
\* stdout, other output, non-zero exit, timeout, binary not found, any other
\* spawn error) it resolves to an envelope; success is true only when stdout
\* parsed as JSON that satisfies the response schema, and every other outcome
\* gives success false with a non-empty error
C27_AlwaysResolvesToEnvelope ==
    pc = "runCLI" =>
        /\ output.envelope.settled = "resolved"
        /\ output.envelope.success => isResponse(input.outcome)
        /\ ~isResponse(input.outcome) =>
               /\ ~output.envelope.success
               /\ output.envelope.error # <<>>
               /\ \A i \in DOMAIN output.envelope.error : output.envelope.error[i] # ""

\* a non-zero exit with nothing on stdout and stderr resolved to a failure
\* that names the exit code
C27_Witness ==
    /\ pc = "runCLI"
    /\ input.outcome.kind = "returned"
    /\ input.outcome.exitCode = "1"
    /\ input.outcome.stdout.text = <<>>
    /\ input.outcome.stderr = <<>>
    /\ output.envelope = failure(<<"Command exited with code ", "1">>)

(***************************************************************************)
(* Claims about RaycastProvider.process.                                   *)
(***************************************************************************)
\* this step completes a process call
completes == pc = "awaiting" /\ pc' = "process"

\* C30: RaycastProvider.process enforces its timeout: when the AI request
\* has not completed as the timeout (options.timeout, 30000 ms by default)
\* elapses, the pending request is aborted and process rejects with "Request
\* timeout"; and the timer is cleared on every path on which process
\* completes
C30_TimeoutEnforcedTimerCleared ==
    /\ [][(completes /\ timer = "fired") =>
             output'.result = [settled |-> "rejected", error |-> <<"Request timeout">>]]_vars
    /\ [][completes => timer' # "armed"]_vars
    /\ [](pc = "awaiting" => input.timeout \in {0, 5000, DEFAULT_TIMEOUT})

=============================================================================
